---- MODULE Spec2Model ----
(***************************************************************************)
(* A model of the texty TextBox widget (src/src/textbox.rs and             *)
(* src/src/textbox/update.rs): the key-binding resolver, the focus/blink   *)
(* record, Content::text, the layout union and the update() state machine. *)
(*                                                                         *)
(* Numbers: instants and durations are integer milliseconds; scroll        *)
(* amounts (f32 in the source) are integers in units of 1/ScrollUnit line, *)
(* all inputs being chosen so that the f32 arithmetic of the source is     *)
(* exact on them; lengths of the layout are integer pixels.                *)
(***************************************************************************)
EXTENDS Integers, Sequences, FiniteSets, TLC

VARIABLES
    target_macos,   \* cfg!(target_os = "macos") of the build
    keyIn,          \* the KeyPress handed to Binding::from_key_press
    keyOut,         \* the Option<Binding> it returned
    blinkIn,        \* the Focus record is_cursor_visible is asked about
    blinkOut,       \* its answer
    textIn,         \* the string Content::with_text was given, while the
                    \* buffer is still the one it built
    editor,         \* the lines of Content's editor buffer
    is_dirty,       \* Internal::is_dirty
    textOut,        \* the result of Content::text()
    editor_bounds,  \* the bounds of Content's editor
    focus,          \* State::focus
    last_click,     \* State::last_click
    drag_click,     \* State::drag_click
    partial_scroll, \* State::partial_scroll
    clock,          \* Instant::now(), in ms
    shell,          \* the Shell and the clipboard writes of the call of
                    \* update being observed
    handled,        \* that call: its input and the Update it was read as
    observed,       \* what the calls of update so far amount to: the run
                    \* of left presses at one place in progress with what
                    \* each one published, and the wheel events since the
                    \* last scroll by a whole line
    spans,          \* State::spans
    paragraph,      \* State::paragraph
    highlighter,    \* State::highlighter: the settings it runs with
    highlighter_settings,        \* State::highlighter_settings
    highlighter_format_address,  \* State::highlighter_format_address
    layIn,          \* the widget, the limits and the measures of a layout pass
    layOut          \* the node the pass returned, and its highlighter calls

keyVars == <<keyIn, keyOut>>

blinkVars == <<blinkIn, blinkOut>>

contentVars == <<textIn, editor, is_dirty, textOut>>

layoutVars == <<editor_bounds, spans, paragraph, highlighter, highlighter_settings,
                highlighter_format_address, layIn, layOut>>

widgetVars == <<last_click, drag_click, partial_scroll, clock, shell, handled, observed>>

vars == <<target_macos, keyVars, blinkVars, contentVars, focus, layoutVars, widgetVars>>

\* ------------------------------------------------------------------------
\* Bounds of the model

\* The longest text payload of a key press.
MaxTextLen == 2

\* The latest instant of a Focus record, in ms.
MaxInstant == 1600

\* The longest string given to Content::with_text.
MaxStringLen == 4

\* The most lines of a buffer.
MaxLines == 3

\* The time between two instants at which events arrive, in ms.
TimeStep == 200

\* The number of such steps.
MaxTicks == 2

\* The time between two events of the blink timer, one millisecond short of
\* a blink interval, and how many times it passes
BlinkStep == 499

MaxBlinkSteps == 4

\* The time between two presses of a fast run of clicks, in ms, and how
\* many times it passes
ClickStep == 100

MaxClickSteps == 5

\* A result that has not been computed yet.
Pending == [pending |-> TRUE]

\* ------------------------------------------------------------------------
\* Key presses (update.rs, KeyPress) and bindings (update.rs, Binding)

None == [none |-> TRUE]

Some(v) == [none |-> FALSE, some |-> v]

Named(k) == [t |-> "Named", v |-> k]

Character(c) == [t |-> "Character", v |-> c]

Unidentified == [t |-> "Unidentified", v |-> ""]

NamedKeys ==
    {"Enter", "Backspace", "Delete", "Escape", "Tab",
     "ArrowLeft", "ArrowRight", "ArrowUp", "ArrowDown",
     "Home", "End", "PageUp", "PageDown"}

CharacterKeys == {"c", "x", "v", "a", "z"}

Keys ==
    {Named(k) : k \in NamedKeys} \cup {Character(c) : c \in CharacterKeys}
        \cup {Unidentified}

Modifiers == [shift : BOOLEAN, control : BOOLEAN, alt : BOOLEAN, logo : BOOLEAN]

\* The characters of a text payload: two control characters (DEL and TAB)
\* and two printable ones.
Chars == {"U+007F", "U+0009", "c", "z"}

is_control(c) == c \in {"U+007F", "U+0009"}

SeqsUpTo(S, n) == UNION {[1..k -> S] : k \in 0..n}

Texts == {None} \cup {Some(s) : s \in SeqsUpTo(Chars, MaxTextLen)}

Statuses == {"Active", "Hovered", "Focused", "Disabled"}

KeyPresses == [key : Keys, modifiers : Modifiers, text : Texts, status : Statuses]

Motions ==
    {"Left", "Right", "Up", "Down", "WordLeft", "WordRight", "Home", "End",
     "PageUp", "PageDown", "DocumentStart", "DocumentEnd"}

Unfocus == [b |-> "Unfocus"]

Submit == [b |-> "Submit"]

Copy == [b |-> "Copy"]

Cut == [b |-> "Cut"]

Paste == [b |-> "Paste"]

Move(m) == [b |-> "Move", motion |-> m]

Select(m) == [b |-> "Select", motion |-> m]

SelectWord == [b |-> "SelectWord"]

SelectLine == [b |-> "SelectLine"]

SelectAll == [b |-> "SelectAll"]

Insert(c) == [b |-> "Insert", c |-> c]

Enter == [b |-> "Enter"]

Backspace == [b |-> "Backspace"]

Delete == [b |-> "Delete"]

\* keyboard::Modifiers::command(): the logo key on macOS, control elsewhere.
command(m, macos) == IF macos THEN m.logo ELSE m.control

\* keyboard::Modifiers::macos_command(): the logo key, on macOS only.
macos_command(m, macos) == macos /\ m.logo

\* keyboard::Modifiers::jump(): alt on macOS, control elsewhere.
jump(m, macos) == IF macos THEN m.alt ELSE m.control

\* Motion::widen()
widen(m) ==
    CASE m = "Left" -> "WordLeft"
      [] m = "Right" -> "WordRight"
      [] m = "Home" -> "DocumentStart"
      [] m = "End" -> "DocumentEnd"
      [] OTHER -> m

\* fn motion(key: key::Named) -> Option<Motion>
motion(k) ==
    CASE k = "ArrowLeft" -> Some("Left")
      [] k = "ArrowRight" -> Some("Right")
      [] k = "ArrowUp" -> Some("Up")
      [] k = "ArrowDown" -> Some("Down")
      [] k = "Home" -> Some("Home")
      [] k = "End" -> Some("End")
      [] k = "PageUp" -> Some("PageUp")
      [] k = "PageDown" -> Some("PageDown")
      [] OTHER -> None

\* text.chars().find(|c| !c.is_control())
RECURSIVE first_non_control(_)
first_non_control(s) ==
    IF s = <<>> THEN None
    ELSE IF ~is_control(Head(s)) THEN Some(Head(s))
    ELSE first_non_control(Tail(s))

\* The Delete arm reads the payload as the DEL character only.
delete_guard_without_del(text) == text.none

\* The guard of the Delete arm: text.is_none() || text.as_deref() == Some("\u{7f}")
delete_guard(text) == text.none \/ text.some = <<"U+007F">>

\* The macOS line-bounds remap of the navigation arm.
line_bounds(m, mods, macos) ==
    IF macos_command(mods, macos)
    THEN CASE m = "Left" -> "Home"
           [] m = "Right" -> "End"
           [] OTHER -> m
    ELSE m

\* The navigation arm with the widening applied before the line-bounds remap.
navigation_widen_first(k, mods, macos) ==
    LET m0 == motion(k) IN
    IF m0.none THEN None
    ELSE LET m1 == IF jump(mods, macos) THEN widen(m0.some) ELSE m0.some
             m2 == line_bounds(m1, mods, macos)
         IN  Some(IF mods.shift THEN Select(m2) ELSE Move(m2))

\* The navigation arm: motion(named_key)?, the remap, the widening, then
\* Select under shift and Move otherwise.
navigation(k, mods, macos) ==
    LET m0 == motion(k) IN
    IF m0.none THEN None
    ELSE LET m1 == line_bounds(m0.some, mods, macos)
             m2 == IF jump(mods, macos) THEN widen(m1) ELSE m1
         IN  Some(IF mods.shift THEN Select(m2) ELSE Move(m2))

\* The `_` arm with the navigation keys consulted before the text payload.
fallback_navigation_first(e, macos) ==
    IF e.key.t = "Named" /\ ~motion(e.key.v).none
    THEN navigation(e.key.v, e.modifiers, macos)
    ELSE IF ~e.text.none
    THEN LET c == first_non_control(e.text.some) IN
         IF c.none THEN None ELSE Some(Insert(c.some))
    ELSE None

\* The `_` arm of the match: the text rule first, the navigation keys only
\* for a key press without text.
fallback(e, macos) ==
    IF ~e.text.none
    THEN LET c == first_non_control(e.text.some) IN
         IF c.none THEN None ELSE Some(Insert(c.some))
    ELSE IF e.key.t = "Named"
    THEN navigation(e.key.v, e.modifiers, macos)
    ELSE None

\* The arms with the Enter key submitting.
match_key_submitting(e, macos) ==
    CASE e.key = Named("Enter") -> Some(Submit)
      [] e.key = Named("Backspace") -> Some(Backspace)
      [] e.key = Named("Delete") /\ delete_guard(e.text) -> Some(Delete)
      [] e.key = Named("Escape") -> Some(Unfocus)
      [] e.key = Character("c") /\ command(e.modifiers, macos) -> Some(Copy)
      [] e.key = Character("x") /\ command(e.modifiers, macos) -> Some(Cut)
      [] e.key = Character("v") /\ command(e.modifiers, macos)
           /\ ~e.modifiers.alt -> Some(Paste)
      [] e.key = Character("a") /\ command(e.modifiers, macos) -> Some(SelectAll)
      [] OTHER -> fallback(e, macos)

\* match key.as_ref() { ... }: the arms in the order of the source (the
\* guards of distinct arms exclude one another).
match_key(e, macos) ==
    CASE e.key = Named("Enter") -> Some(Enter)
      [] e.key = Named("Backspace") -> Some(Backspace)
      [] e.key = Named("Delete") /\ delete_guard(e.text) -> Some(Delete)
      [] e.key = Named("Escape") -> Some(Unfocus)
      [] e.key = Character("c") /\ command(e.modifiers, macos) -> Some(Copy)
      [] e.key = Character("x") /\ command(e.modifiers, macos) -> Some(Cut)
      [] e.key = Character("v") /\ command(e.modifiers, macos)
           /\ ~e.modifiers.alt -> Some(Paste)
      [] e.key = Character("a") /\ command(e.modifiers, macos) -> Some(SelectAll)
      [] OTHER -> fallback(e, macos)

\* The resolver without its status check.
from_key_press_any_status(e, macos) == match_key(e, macos)

\* Binding::from_key_press
from_key_press(e, macos) ==
    IF e.status # "Focused" THEN None ELSE match_key(e, macos)

\* ------------------------------------------------------------------------
\* The focus record and its blink phase (textbox.rs, Focus)

CURSOR_BLINK_INTERVAL_MILLIS == 500

\* Instant - Instant, which saturates at zero.
duration_since(later, earlier) == IF later >= earlier THEN later - earlier ELSE 0

\* Focus::now() at instant t
FocusNow(t) == [updated_at |-> t, now |-> t, is_window_focused |-> TRUE]

\* The blink phase read without the window-focus flag.
is_cursor_visible_any_window(f) ==
    (duration_since(f.now, f.updated_at) \div CURSOR_BLINK_INTERVAL_MILLIS) % 2 = 0

\* The blink phase read from a difference of instants that does not
\* saturate.
is_cursor_visible_unsaturated(f) ==
    /\ f.is_window_focused
    /\ ((f.now - f.updated_at) \div CURSOR_BLINK_INTERVAL_MILLIS) % 2 = 0

\* Focus::is_cursor_visible
is_cursor_visible(f) ==
    /\ f.is_window_focused
    /\ (duration_since(f.now, f.updated_at) \div CURSOR_BLINK_INTERVAL_MILLIS) % 2 = 0

\* TextBox::draw, whether the caret is painted: the editor's cursor is a
\* Caret or a Selection, and clipped tells whether the caret's rectangle
\* meets the bounds of the editor's layout.
draw_caret(state_focus, cursor, clipped) ==
    /\ ~state_focus.none
    /\ cursor = "Caret"
    /\ is_cursor_visible(state_focus.some)
    /\ clipped

\* updated_at is the instant of a focus, a window focus or a binding; now is
\* that of the last redraw tick, which may be the earlier of the two.
FocusRecords ==
    [updated_at : {0, 300}, now : 0..MaxInstant, is_window_focused : BOOLEAN]

\* ------------------------------------------------------------------------
\* Content (textbox.rs, Content): the buffer is a sequence of lines, each a
\* text without line breaks and a line ending.  Strings are sequences of the
\* characters "a", "LF" (U+000A) and "CR" (U+000D).

LineEndings == {"Lf", "CrLf", "Cr", "LfCr", "None"}

\* LineEnding::as_str
as_str(ending) ==
    CASE ending = "Lf" -> <<"LF">>
      [] ending = "CrLf" -> <<"CR", "LF">>
      [] ending = "Cr" -> <<"CR">>
      [] ending = "LfCr" -> <<"LF", "CR">>
      [] ending = "None" -> <<>>

\* LineEnding::default()
DefaultLineEnding == "Lf"

Line(text, ending) == [text |-> text, ending |-> ending]

StringChars == {"a", "LF", "CR"}

Strings == SeqsUpTo(StringChars, MaxStringLen)

IsBreak(c) == c \in {"LF", "CR"}

\* The index of the first line break of s, 0 if it has none.
RECURSIVE first_break(_, _)
first_break(s, i) ==
    IF i > Len(s) THEN 0
    ELSE IF IsBreak(s[i]) THEN i
    ELSE first_break(s, i + 1)

\* The line ending a string starts with: the two-character endings first.
leading_ending(s) ==
    IF Len(s) >= 2 /\ s[1] = "CR" /\ s[2] = "LF" THEN "CrLf"
    ELSE IF Len(s) >= 2 /\ s[1] = "LF" /\ s[2] = "CR" THEN "LfCr"
    ELSE IF Len(s) >= 1 /\ s[1] = "LF" THEN "Lf"
    ELSE IF Len(s) >= 1 /\ s[1] = "CR" THEN "Cr"
    ELSE "None"

\* The editor's split of a string into lines: each line runs to the next
\* line ending; what follows the last ending is a line of its own if it is
\* not empty.
RECURSIVE split_lines(_)
split_lines(s) ==
    LET i == first_break(s, 1) IN
    IF i = 0
    THEN IF s = <<>> THEN <<>> ELSE <<Line(s, "None")>>
    ELSE LET after == SubSeq(s, i, Len(s))
             ending == leading_ending(after)
             rest == SubSeq(after, Len(as_str(ending)) + 1, Len(after))
         IN  <<Line(SubSeq(s, 1, i - 1), ending)>> \o split_lines(rest)

\* R::Editor::with_text as called by Content::with_text: the lines of the
\* string, closed by an empty line without ending unless the last line
\* already has none (a buffer always has a line).
with_text(s) ==
    LET ls == split_lines(s) IN
    IF ls = <<>> \/ ls[Len(ls)].ending # "None"
    THEN ls \o <<Line(<<>>, "None")>>
    ELSE ls

\* Content::line_count
line_count(ed) == Len(ed)

\* Content::line
line(ed, index) == IF index < Len(ed) THEN Some(ed[index + 1]) ELSE None

\* Content::text with the separator written after the last line as well.
RECURSIVE text_ending_every_line(_)
text_ending_every_line(ed) ==
    IF ed = <<>> THEN <<>>
    ELSE Head(ed).text
            \o (IF Head(ed).ending = "None"
                THEN as_str(DefaultLineEnding) ELSE as_str(Head(ed).ending))
            \o text_ending_every_line(Tail(ed))

\* Content::text: every line's text, followed by its line ending (the
\* default one for a line without ending) if another line follows.
RECURSIVE text(_)
text(ed) ==
    IF ed = <<>> THEN <<>>
    ELSE Head(ed).text
            \o (IF Tail(ed) # <<>>
                THEN IF Head(ed).ending = "None"
                     THEN as_str(DefaultLineEnding)
                     ELSE as_str(Head(ed).ending)
                ELSE <<>>)
            \o text(Tail(ed))

\* Content::line_ending
line_ending(ed) == IF line(ed, 0).none THEN None ELSE Some(line(ed, 0).some.ending)

\* The lines an edit can leave in the buffer.
EditedLines == {Line(<<"a">>, e) : e \in LineEndings}

\* ------------------------------------------------------------------------
\* Layout (textbox.rs, TextBox::layout).  Lengths are integer pixels;
\* INFINITY stands for f32::INFINITY, which absorbs sums and differences
\* (the largest integer of the model: every finite length is far below).

INFINITY == 2147483647

Max(a, b) == IF a >= b THEN a ELSE b

Min(a, b) == IF a <= b THEN a ELSE b

\* f32 addition and subtraction on lengths
Plus(a, b) == IF a = INFINITY \/ b = INFINITY THEN INFINITY ELSE a + b

Minus(a, b) == IF a = INFINITY THEN INFINITY ELSE a - b

Size(w, h) == [width |-> w, height |-> h]

ZERO == Size(0, 0)

Padding(top, right, bottom, left) ==
    [top |-> top, right |-> right, bottom |-> bottom, left |-> left]

\* Padding::horizontal and Padding::vertical
horizontal(p) == p.left + p.right

vertical(p) == p.top + p.bottom

Fill == [t |-> "Fill"]

Shrink == [t |-> "Shrink"]

Fixed(n) == [t |-> "Fixed", v |-> n]

Limits(min, max) == [min |-> min, max |-> max]

\* Limits::width / Limits::height on one axis: a fixed length pins both
\* ends of the axis, the other lengths leave it alone.
pin(lo, hi, length) ==
    IF length.t = "Fixed"
    THEN LET n == Max(Min(length.v, hi), lo) IN [lo |-> n, hi |-> n]
    ELSE [lo |-> lo, hi |-> hi]

\* limits.width(width).height(height)
with_lengths(l, width, height) ==
    LET w == pin(l.min.width, l.max.width, width)
        h == pin(l.min.height, l.max.height, height)
    IN  Limits(Size(w.lo, h.lo), Size(w.hi, h.hi))

\* Limits::shrink(padding)
shrink(l, p) ==
    Limits(Size(Max(Minus(l.min.width, horizontal(p)), 0),
                Max(Minus(l.min.height, vertical(p)), 0)),
           Size(Max(Minus(l.max.width, horizontal(p)), 0),
                Max(Minus(l.max.height, vertical(p)), 0)))

\* Limits::resolve on one axis
resolve_axis(lo, hi, length, intrinsic) ==
    CASE length.t = "Fill" -> hi
      [] length.t = "Fixed" -> Max(Min(length.v, hi), lo)
      [] length.t = "Shrink" -> Max(Min(intrinsic, hi), lo)

\* Limits::resolve
resolve(l, width, height, intrinsic) ==
    Size(resolve_axis(l.min.width, l.max.width, width, intrinsic.width),
         resolve_axis(l.min.height, l.max.height, height, intrinsic.height))

\* Padding::fit(inner, outer)
fit(p, inner, outer) ==
    LET aw == Max(Minus(outer.width, inner.width), 0)
        ah == Max(Minus(outer.height, inner.height), 0)
        top == Min(p.top, ah)
        left == Min(p.left, aw)
    IN  Padding(top, Min(p.right, Minus(aw, left)), Min(p.bottom, Minus(ah, top)), left)

\* Size::expand(padding)
expand(s, p) == Size(Plus(s.width, horizontal(p)), Plus(s.height, vertical(p)))

\* Paragraph::compare: what differs between the cached paragraph and the
\* text of this pass.
compare(cached, shape, bounds) ==
    IF cached.shape # shape THEN "Shape"
    ELSE IF cached.bounds # bounds THEN "Bounds"
    ELSE "None"

\* Paragraph::default()
DefaultParagraph == [spans |-> <<>>, shape |-> "default", bounds |-> ZERO, op |-> "default"]

\* layout_spans, the paragraph cache: a paragraph rebuilt from the spans,
\* resized to the bounds or kept.
cached_paragraph(cached_spans, cached, new_spans, shape, bounds) ==
    IF cached_spans # new_spans
    THEN [spans |-> new_spans, shape |-> shape, bounds |-> bounds, op |-> "with_spans"]
    ELSE CASE compare(cached, shape, bounds) = "None" ->
                [cached EXCEPT !.op = "kept"]
           [] compare(cached, shape, bounds) = "Bounds" ->
                [cached EXCEPT !.bounds = bounds, !.op = "resize"]
           [] compare(cached, shape, bounds) = "Shape" ->
                [spans |-> new_spans, shape |-> shape, bounds |-> bounds, op |-> "with_spans"]

\* layout_spans, the node: layout::sized over the paragraph's min_bounds
layout_spans(limits, width, height, min_bounds) ==
    resolve(with_lengths(limits, width, height), width, height, min_bounds)

\* layout_background
layout_background(limits, width, height) == resolve(limits, width, height, ZERO)

\* layout_editor: the node of the editor, given its min_bounds under an
\* unbounded height
layout_editor(limits, padding, min_bounds) ==
    Size(Plus(limits.max.width, horizontal(padding)),
         Max(limits.max.height, Plus(min_bounds.height, vertical(padding))))

\* The focused bounds taken from the editor's min_bounds, not from its node.
final_bounds_of_min_bounds(focused, limits, content_limits, padding, spans_node, editor_node, min_bounds) ==
    IF focused
    THEN expand(Size(content_limits.max.width,
                     Max(content_limits.max.height, min_bounds.height)), padding)
    ELSE resolve(limits, Fixed(Plus(spans_node.width, horizontal(padding))),
                 Fixed(Plus(spans_node.height, vertical(padding))), ZERO)

\* TextBox::layout, final_bounds
final_bounds(focused, limits, content_limits, padding, spans_node, editor_node, min_bounds) ==
    IF focused
    THEN expand(Size(content_limits.max.width,
                     Max(content_limits.max.height, editor_node.height)), padding)
    ELSE resolve(limits, Fixed(Plus(spans_node.width, horizontal(padding))),
                 Fixed(Plus(spans_node.height, vertical(padding))), ZERO)

\* TextBox::layout: the node and its three children, for the widget
\* in.widget under in.limits, with what the collaborators measure
\* (the paragraph's and the editor's min_bounds).
layout(focused, in) ==
    LET w == in.widget
        padding == fit(w.padding, ZERO, in.limits.max)
        content_limits == shrink(with_lengths(in.limits, w.width, w.height), padding)
        spans_node == layout_spans(content_limits, w.width, w.height,
                                   in.paragraph_min_bounds)
        background_node == layout_background(in.limits, w.width, w.height)
        editor_node == layout_editor(content_limits, w.padding, in.editor_min_bounds)
    IN  [size |-> final_bounds(focused, in.limits, content_limits, padding,
                               spans_node, editor_node, in.editor_min_bounds),
         children |-> <<spans_node, background_node, editor_node>>,
         padding |-> padding,
         content_limits |-> content_limits]

\* The widgets laid out: their lengths, padding, spans, text shape and
\* highlighter configuration.
LayoutWidgets ==
    [width : {Fill, Shrink},
     height : {Shrink, Fill, Fixed(25)},
     padding : {Padding(0, 0, 0, 0), Padding(5, 5, 5, 5), Padding(2, 1, 4, 3)},
     spans : {<<"span">>},
     shape : {"shape"},
     highlighter_format : {"format1", "format2"},
     highlighter_settings : {"settings1", "settings2"}]

LayoutInputs ==
    [widget : LayoutWidgets,
     limits : {Limits(Size(0, lo), Size(100, hi)) : lo \in {0, 20}, hi \in {8, 40, INFINITY}},
     paragraph_min_bounds : {Size(60, h) : h \in {6, 16, 60}},
     editor_min_bounds : {Size(70, h) : h \in {6, 50}}]

\* ------------------------------------------------------------------------
\* Events, cursors and clicks (update.rs, Update::from_event and the iced
\* types it calls)

Point(x, y) == [x |-> x, y |-> y]

Rectangle(x, y, width, height) == [x |-> x, y |-> y, width |-> width, height |-> height]

\* Rectangle::contains
contains(r, p) ==
    /\ r.x <= p.x /\ p.x < r.x + r.width
    /\ r.y <= p.y /\ p.y < r.y + r.height

\* mouse::Cursor::Available(p) is Some(p), mouse::Cursor::Unavailable is None.
\* mouse::Cursor::position_in: the position relative to the bounds
position_in(cursor, bounds) ==
    IF ~cursor.none /\ contains(bounds, cursor.some)
    THEN Some(Point(cursor.some.x - bounds.x, cursor.some.y - bounds.y))
    ELSE None

\* mouse::Cursor::is_over
is_over(cursor, bounds) == ~cursor.none /\ contains(bounds, cursor.some)

\* cursor_position - Vector::new(padding.top, padding.left)
adjusted(p, padding) == Point(p.x - padding.top, p.y - padding.left)

\* mouse::click::Kind::next
next(kind) ==
    CASE kind = "Single" -> "Double"
      [] kind = "Double" -> "Triple"
      [] kind = "Triple" -> "Double"

\* mouse::Click::is_consecutive: closer than 6 units and later by at most
\* 300 ms
is_consecutive(previous, new_position, time) ==
    LET dx == previous.position.x - new_position.x
        dy == previous.position.y - new_position.y
    IN  /\ dx * dx + dy * dy < 6 * 6
        /\ time > previous.time
        /\ time - previous.time <= 300

\* A click counter that deems every click of the button consecutive.
Click_new_ignoring_time(position, button, previous, time) ==
    [kind |-> IF ~previous.none /\ button = previous.some.button
              THEN next(previous.some.kind)
              ELSE "Single",
     button |-> button, position |-> position, time |-> time]

\* mouse::Click::new, called at instant time
Click_new(position, button, previous, time) ==
    [kind |-> IF /\ ~previous.none
                 /\ is_consecutive(previous.some, position, time)
                 /\ button = previous.some.button
              THEN next(previous.some.kind)
              ELSE "Single",
     button |-> button, position |-> position, time |-> time]

\* One line of scroll (the f32 1.0) in the unit of the scroll amounts.
OneLine == 40

Abs(v) == IF v >= 0 THEN v ELSE 0 - v

\* f32::signum
signum(v) == IF v >= 0 THEN 1 ELSE 0 - 1

\* The line-delta amount without its floor at one line.
scroll_lines_unfloored(y) ==
    IF Abs(y) > 0 THEN signum(y) * (0 - (Abs(y) * 4)) ELSE 0

\* The line-delta amount with the sign of the delta.
scroll_lines_of_the_same_sign(y) ==
    IF Abs(y) > 0 THEN signum(y) * Max(Abs(y) * 4, OneLine) ELSE 0

\* The amount of a line-delta wheel event: amplified by 4, at least one
\* line, of the opposite sign
scroll_lines(y) ==
    IF Abs(y) > 0 THEN signum(y) * (0 - Max(Abs(y) * 4, OneLine)) ELSE 0

\* The amount of a pixel-delta wheel event: -y / 4
scroll_pixels(y) == IF y >= 0 THEN 0 - (y \div 4) ELSE (0 - y) \div 4

\* The events of the model
WindowUnfocused == [type |-> "WindowUnfocused"]

WindowFocused == [type |-> "WindowFocused"]

RedrawRequested(now) == [type |-> "RedrawRequested", now |-> now]

ButtonPressed(button) == [type |-> "ButtonPressed", button |-> button]

ButtonReleased(button) == [type |-> "ButtonReleased", button |-> button]

CursorMoved == [type |-> "CursorMoved"]

WheelScrolled(unit, y) == [type |-> "WheelScrolled", unit |-> unit, y |-> y]

KeyPressed(key, modifiers, payload) ==
    [type |-> "KeyPressed", key |-> key, modifiers |-> modifiers, text |-> payload]

KeyReleased(key) == [type |-> "KeyReleased", key |-> key]

\* Binding::Sequence and Binding::Custom
Sequence(bindings) == [b |-> "Sequence", bindings |-> bindings]

Custom(message) == [b |-> "Custom", message |-> message]

\* The variants of Update
UpdateClick(click) == [u |-> "Click", click |-> click]

UpdateDrag(position) == [u |-> "Drag", position |-> position]

UpdateRelease == [u |-> "Release"]

UpdateScroll(lines) == [u |-> "Scroll", lines |-> lines]

UpdateBinding(binding) == [u |-> "Binding", binding |-> binding]

\* The status of the key press without the test of state.focus.
key_status_always_focused(state) == "Focused"

\* The status from_event gives the key press
key_status(state) == IF ~state.focus.none THEN "Focused" ELSE "Active"

\* from_event with the press outside the bounds read as Unfocus whether or
\* not the widget is focused.
from_event_unfocusing_unfocused(event, state, bounds, padding, cursor, key_binding, time, macos) ==
    LET inside == position_in(cursor, bounds) IN
    CASE event.type = "ButtonPressed" /\ event.button = "Left" ->
            IF ~inside.none
            THEN Some(UpdateClick(Click_new(adjusted(inside.some, padding), "Left",
                                            state.last_click, time)))
            ELSE Some(UpdateBinding(Unfocus))
      [] event.type = "ButtonReleased" /\ event.button = "Left" -> Some(UpdateRelease)
      [] event.type = "CursorMoved" ->
            IF state.drag_click = Some("Single") /\ ~inside.none
            THEN Some(UpdateDrag(adjusted(inside.some, padding)))
            ELSE None
      [] event.type = "WheelScrolled" /\ is_over(cursor, bounds) ->
            Some(UpdateScroll(IF event.unit = "Lines" THEN scroll_lines(event.y)
                              ELSE scroll_pixels(event.y)))
      [] event.type = "KeyPressed" ->
            LET key_press == [key |-> event.key, modifiers |-> event.modifiers,
                              text |-> event.text, status |-> key_status(state)]
                binding == IF ~key_binding.none THEN key_binding.some[key_press]
                           ELSE from_key_press(key_press, macos)
            IN  IF binding.none THEN None ELSE Some(UpdateBinding(binding.some))
      [] OTHER -> None

\* from_event with the cursor dragging after a click of any kind.
from_event_dragging_any_click(event, state, bounds, padding, cursor, key_binding, time, macos) ==
    LET inside == position_in(cursor, bounds) IN
    CASE event.type = "ButtonPressed" /\ event.button = "Left" ->
            IF ~inside.none
            THEN Some(UpdateClick(Click_new(adjusted(inside.some, padding), "Left",
                                            state.last_click, time)))
            ELSE IF ~state.focus.none THEN Some(UpdateBinding(Unfocus))
            ELSE None
      [] event.type = "ButtonReleased" /\ event.button = "Left" -> Some(UpdateRelease)
      [] event.type = "CursorMoved" ->
            IF ~state.drag_click.none /\ ~inside.none
            THEN Some(UpdateDrag(adjusted(inside.some, padding)))
            ELSE None
      [] event.type = "WheelScrolled" /\ is_over(cursor, bounds) ->
            Some(UpdateScroll(IF event.unit = "Lines" THEN scroll_lines(event.y)
                              ELSE scroll_pixels(event.y)))
      [] event.type = "KeyPressed" ->
            LET key_press == [key |-> event.key, modifiers |-> event.modifiers,
                              text |-> event.text, status |-> key_status(state)]
                binding == IF ~key_binding.none THEN key_binding.some[key_press]
                           ELSE from_key_press(key_press, macos)
            IN  IF binding.none THEN None ELSE Some(UpdateBinding(binding.some))
      [] OTHER -> None

\* from_event with the default resolver consulted when the custom one
\* answers none.
from_event_falling_back(event, state, bounds, padding, cursor, key_binding, time, macos) ==
    LET inside == position_in(cursor, bounds) IN
    CASE event.type = "ButtonPressed" /\ event.button = "Left" ->
            IF ~inside.none
            THEN Some(UpdateClick(Click_new(adjusted(inside.some, padding), "Left",
                                            state.last_click, time)))
            ELSE IF ~state.focus.none THEN Some(UpdateBinding(Unfocus))
            ELSE None
      [] event.type = "ButtonReleased" /\ event.button = "Left" -> Some(UpdateRelease)
      [] event.type = "CursorMoved" ->
            IF state.drag_click = Some("Single") /\ ~inside.none
            THEN Some(UpdateDrag(adjusted(inside.some, padding)))
            ELSE None
      [] event.type = "WheelScrolled" /\ is_over(cursor, bounds) ->
            Some(UpdateScroll(IF event.unit = "Lines" THEN scroll_lines(event.y)
                              ELSE scroll_pixels(event.y)))
      [] event.type = "KeyPressed" ->
            LET key_press == [key |-> event.key, modifiers |-> event.modifiers,
                              text |-> event.text, status |-> key_status(state)]
                binding == IF ~key_binding.none /\ ~key_binding.some[key_press].none
                           THEN key_binding.some[key_press]
                           ELSE from_key_press(key_press, macos)
            IN  IF binding.none THEN None ELSE Some(UpdateBinding(binding.some))
      [] OTHER -> None

\* Update::from_event at instant time; key_binding is None for the default
\* resolver and Some(r) for a custom one, r[key_press] being its answer to the
\* key press.
from_event(event, state, bounds, padding, cursor, key_binding, time, macos) ==
    LET inside == position_in(cursor, bounds) IN
    CASE event.type = "ButtonPressed" /\ event.button = "Left" ->
            IF ~inside.none
            THEN Some(UpdateClick(Click_new(adjusted(inside.some, padding), "Left",
                                            state.last_click, time)))
            ELSE IF ~state.focus.none THEN Some(UpdateBinding(Unfocus))
            ELSE None
      [] event.type = "ButtonReleased" /\ event.button = "Left" -> Some(UpdateRelease)
      [] event.type = "CursorMoved" ->
            IF state.drag_click = Some("Single") /\ ~inside.none
            THEN Some(UpdateDrag(adjusted(inside.some, padding)))
            ELSE None
      [] event.type = "WheelScrolled" /\ is_over(cursor, bounds) ->
            Some(UpdateScroll(IF event.unit = "Lines" THEN scroll_lines(event.y)
                              ELSE scroll_pixels(event.y)))
      [] event.type = "KeyPressed" ->
            LET key_press == [key |-> event.key, modifiers |-> event.modifiers,
                              text |-> event.text, status |-> key_status(state)]
                binding == IF ~key_binding.none THEN key_binding.some[key_press]
                           ELSE from_key_press(key_press, macos)
            IN  IF binding.none THEN None ELSE Some(UpdateBinding(binding.some))
      [] OTHER -> None
\* ------------------------------------------------------------------------
\* TextBox::update (textbox.rs): the handler of one event

\* The actions published through on_edit
ActionClick(position) == [a |-> "Click", position |-> position]

ActionDrag(position) == [a |-> "Drag", position |-> position]

ActionScroll(lines) == [a |-> "Scroll", lines |-> lines]

ActionSelectWord == [a |-> "SelectWord"]

ActionSelectLine == [a |-> "SelectLine"]

ActionSelectAll == [a |-> "SelectAll"]

ActionMove(m) == [a |-> "Move", motion |-> m]

ActionSelect(m) == [a |-> "Select", motion |-> m]

ActionEdit(edit) == [a |-> "Edit", edit |-> edit]

EditInsert(c) == [e |-> "Insert", c |-> c]

EditPaste(contents) == [e |-> "Paste", contents |-> contents]

EditEnter == [e |-> "Enter"]

EditBackspace == [e |-> "Backspace"]

EditDelete == [e |-> "Delete"]

\* The messages the widget publishes
OnEdit(action) == [m |-> "on_edit", action |-> action]

OnBlur == [m |-> "on_blur"]

OnSubmit == [m |-> "on_submit"]

CustomMessage(message) == [m |-> "custom", message |-> message]

\* The Shell of one call of update, before anything is asked of it, with the
\* writes to the clipboard
NewShell ==
    [messages |-> <<>>, event_captured |-> FALSE, redraw |-> FALSE,
     redraw_at |-> None, layout_invalid |-> FALSE, clipboard |-> <<>>]

\* Widget::state(): the interaction part of State
NewState == [focus |-> None, last_click |-> None, drag_click |-> None, partial_scroll |-> 0]

publish(r, message) == [r EXCEPT !.shell.messages = Append(@, message)]

capture_event(r) == [r EXCEPT !.shell.event_captured = TRUE]

request_redraw(r) == [r EXCEPT !.shell.redraw = TRUE]

\* invalidate_layout asking for a redraw instead
invalidate_layout_as_redraw(r) == [r EXCEPT !.shell.redraw = TRUE]

invalidate_layout(r) == [r EXCEPT !.shell.layout_invalid = TRUE]

\* clipboard_write for a focused widget only
clipboard_write_if_focused(r, contents) ==
    IF r.state.focus.none THEN r ELSE [r EXCEPT !.shell.clipboard = Append(@, contents)]

clipboard_write(r, contents) == [r EXCEPT !.shell.clipboard = Append(@, contents)]

\* focus keeping the window-focus flag of the record it replaces
focus_now_keeping_window(r, time) ==
    [r EXCEPT !.state.focus =
         Some([FocusNow(time) EXCEPT !.is_window_focused =
                   IF r.state.focus.none THEN TRUE
                   ELSE r.state.focus.some.is_window_focused])]

\* Focusable::focus at instant time
focus_now(r, time) == [r EXCEPT !.state.focus = Some(FocusNow(time))]

\* Focusable::unfocus
unfocus(r) == [r EXCEPT !.state.focus = None]

is_focused(r) == ~r.state.focus.none

\* publish_if_focused without its test of the focus
publish_if_focused_always(r, action, time) ==
    request_redraw(focus_now(publish(r, OnEdit(action)), time))

\* The closure publish_if_focused of apply_binding
publish_if_focused(r, action, time) ==
    IF is_focused(r)
    THEN request_redraw(focus_now(publish(r, OnEdit(action)), time))
    ELSE r

\* as i32 of an amount of lines: its integer part, towards zero
trunc(v) == IF v >= 0 THEN v \div OneLine ELSE 0 - ((0 - v) \div OneLine)

\* f32::fract: what is left of the amount, with its sign
fract(v) == v - trunc(v) * OneLine

\* apply_binding: r is the state and the shell so far, w the widget, the
\* selection is that of the content and clipboard what the clipboard holds
RECURSIVE apply_binding(_, _, _, _, _, _)
RECURSIVE apply_sequence(_, _, _, _, _, _)
\* The sub-bindings applied from the last to the first
apply_sequence_from_the_right(sequence, r, w, selection, clipboard, time) ==
    IF sequence = <<>> THEN r
    ELSE apply_binding(Head(sequence),
                       apply_sequence(Tail(sequence), r, w, selection, clipboard, time),
                       w, selection, clipboard, time)

apply_sequence(sequence, r, w, selection, clipboard, time) ==
    IF sequence = <<>> THEN r
    ELSE apply_sequence(Tail(sequence),
                        apply_binding(Head(sequence), r, w, selection, clipboard, time),
                        w, selection, clipboard, time)

apply_binding(binding, r, w, selection, clipboard, time) ==
    CASE binding.b = "Unfocus" ->
            IF is_focused(r)
            THEN LET r1 == [unfocus(r) EXCEPT !.state.drag_click = None]
                     r2 == IF w.on_blur THEN publish(r1, OnBlur) ELSE r1
                 IN  request_redraw(r2)
            ELSE r
      [] binding.b = "Copy" ->
            IF ~selection.none THEN clipboard_write(r, selection.some) ELSE r
      [] binding.b = "Cut" ->
            IF ~selection.none
            THEN publish_if_focused(clipboard_write(r, selection.some),
                                    ActionEdit(EditDelete), time)
            ELSE r
      [] binding.b = "Paste" ->
            IF ~clipboard.none
            THEN publish_if_focused(r, ActionEdit(EditPaste(clipboard.some)), time)
            ELSE r
      [] binding.b = "Move" -> publish_if_focused(r, ActionMove(binding.motion), time)
      [] binding.b = "Select" -> publish_if_focused(r, ActionSelect(binding.motion), time)
      [] binding.b = "SelectWord" -> publish_if_focused(r, ActionSelectWord, time)
      [] binding.b = "SelectLine" -> publish_if_focused(r, ActionSelectLine, time)
      [] binding.b = "SelectAll" -> publish_if_focused(r, ActionSelectAll, time)
      [] binding.b = "Insert" ->
            publish_if_focused(r, ActionEdit(EditInsert(binding.c)), time)
      [] binding.b = "Enter" -> publish_if_focused(r, ActionEdit(EditEnter), time)
      [] binding.b = "Submit" ->
            IF is_focused(r)
            THEN LET r1 == IF w.on_submit THEN publish(r, OnSubmit) ELSE r
                 IN  invalidate_layout(unfocus(r1))
            ELSE r
      [] binding.b = "Backspace" ->
            request_redraw(publish_if_focused(r, ActionEdit(EditBackspace), time))
      [] binding.b = "Delete" ->
            request_redraw(publish_if_focused(r, ActionEdit(EditDelete), time))
      [] binding.b = "Sequence" ->
            apply_sequence(binding.bindings, r, w, selection, clipboard, time)
      [] binding.b = "Custom" ->
            request_redraw(publish(r, CustomMessage(binding.message)))

\* The bounds of the layout handed to update
LayoutBounds == Rectangle(10, 20, 100, 40)

\* window_event with the next redraw a whole blink interval after the tick
window_event_fixed_interval(event, r, time) ==
    IF r.state.focus.none THEN r
    ELSE LET f == r.state.focus.some IN
         CASE event.type = "WindowUnfocused" ->
                 [r EXCEPT !.state.focus = Some([f EXCEPT !.is_window_focused = FALSE])]
           [] event.type = "WindowFocused" ->
                 invalidate_layout(request_redraw(
                     [r EXCEPT !.state.focus =
                          Some([f EXCEPT !.is_window_focused = TRUE, !.updated_at = time])]))
           [] event.type = "RedrawRequested" /\ f.is_window_focused ->
                 LET millis_until_redraw ==
                         CURSOR_BLINK_INTERVAL_MILLIS
                 IN  [r EXCEPT !.state.focus = Some([f EXCEPT !.now = event.now]),
                               !.shell.redraw_at = Some(event.now + millis_until_redraw)]
           [] OTHER -> r

\* window_event re-arming the timer whether the window is focused or not
window_event_rearming_always(event, r, time) ==
    IF r.state.focus.none THEN r
    ELSE LET f == r.state.focus.some IN
         CASE event.type = "WindowUnfocused" ->
                 [r EXCEPT !.state.focus = Some([f EXCEPT !.is_window_focused = FALSE])]
           [] event.type = "WindowFocused" ->
                 invalidate_layout(request_redraw(
                     [r EXCEPT !.state.focus =
                          Some([f EXCEPT !.is_window_focused = TRUE, !.updated_at = time])]))
           [] event.type = "RedrawRequested" ->
                 LET millis_until_redraw ==
                         CURSOR_BLINK_INTERVAL_MILLIS
                             - (duration_since(event.now, f.updated_at)
                                    % CURSOR_BLINK_INTERVAL_MILLIS)
                 IN  [r EXCEPT !.state.focus = Some([f EXCEPT !.now = event.now]),
                               !.shell.redraw_at = Some(event.now + millis_until_redraw)]
           [] OTHER -> r

\* window_event with a window focus that keeps updated_at
window_event_keeping_updated_at(event, r, time) ==
    IF r.state.focus.none THEN r
    ELSE LET f == r.state.focus.some IN
         CASE event.type = "WindowUnfocused" ->
                 [r EXCEPT !.state.focus = Some([f EXCEPT !.is_window_focused = FALSE])]
           [] event.type = "WindowFocused" ->
                 invalidate_layout(request_redraw(
                     [r EXCEPT !.state.focus =
                          Some([f EXCEPT !.is_window_focused = TRUE])]))
           [] event.type = "RedrawRequested" /\ f.is_window_focused ->
                 LET millis_until_redraw ==
                         CURSOR_BLINK_INTERVAL_MILLIS
                             - (duration_since(event.now, f.updated_at)
                                    % CURSOR_BLINK_INTERVAL_MILLIS)
                 IN  [r EXCEPT !.state.focus = Some([f EXCEPT !.now = event.now]),
                               !.shell.redraw_at = Some(event.now + millis_until_redraw)]
           [] OTHER -> r

\* update, the match on the window events, at instant time
window_event(event, r, time) ==
    IF r.state.focus.none THEN r
    ELSE LET f == r.state.focus.some IN
         CASE event.type = "WindowUnfocused" ->
                 [r EXCEPT !.state.focus = Some([f EXCEPT !.is_window_focused = FALSE])]
           [] event.type = "WindowFocused" ->
                 invalidate_layout(request_redraw(
                     [r EXCEPT !.state.focus =
                          Some([f EXCEPT !.is_window_focused = TRUE, !.updated_at = time])]))
           [] event.type = "RedrawRequested" /\ f.is_window_focused ->
                 LET millis_until_redraw ==
                         CURSOR_BLINK_INTERVAL_MILLIS
                             - (duration_since(event.now, f.updated_at)
                                    % CURSOR_BLINK_INTERVAL_MILLIS)
                 IN  [r EXCEPT !.state.focus = Some([f EXCEPT !.now = event.now]),
                               !.shell.redraw_at = Some(event.now + millis_until_redraw)]
           [] OTHER -> r

\* The Click arm with the Triple click read as a Double one.
on_click_triple_as_double(click, r, time) ==
    LET stored == [r EXCEPT !.state.last_click = Some(click),
                            !.state.drag_click = Some(click.kind)]
    IN  CASE click.kind = "Single" ->
                IF is_focused(stored)
                THEN request_redraw(publish(capture_event(stored),
                                            OnEdit(ActionClick(click.position))))
                ELSE stored
          [] OTHER ->
                IF is_focused(stored)
                THEN request_redraw(capture_event(publish(stored, OnEdit(ActionSelectWord))))
                ELSE capture_event(publish(invalidate_layout(focus_now(stored, time)),
                                           OnEdit(ActionClick(click.position))))

\* The Click arm with the Double and Triple clicks selecting whether or not
\* the widget is focused.
on_click_selecting_unfocused(click, r, time) ==
    LET stored == [r EXCEPT !.state.last_click = Some(click),
                            !.state.drag_click = Some(click.kind)]
    IN  CASE click.kind = "Single" ->
                IF is_focused(stored)
                THEN request_redraw(publish(capture_event(stored),
                                            OnEdit(ActionClick(click.position))))
                ELSE stored
          [] click.kind = "Double" ->
                request_redraw(capture_event(publish(stored, OnEdit(ActionSelectWord))))
          [] click.kind = "Triple" ->
                request_redraw(capture_event(publish(r, OnEdit(ActionSelectAll))))

\* update, the Update::Click arm
\* on_click with the Single click focusing an unfocused widget as the Double
\* click does
on_click_focusing_single(click, r, time) ==
    LET stored == [r EXCEPT !.state.last_click = Some(click),
                            !.state.drag_click = Some(click.kind)]
    IN  CASE click.kind = "Single" ->
                IF is_focused(stored)
                THEN request_redraw(publish(capture_event(stored),
                                            OnEdit(ActionClick(click.position))))
                ELSE capture_event(publish(invalidate_layout(focus_now(stored, time)),
                                           OnEdit(ActionClick(click.position))))
          [] click.kind = "Double" ->
                IF is_focused(stored)
                THEN request_redraw(capture_event(publish(stored, OnEdit(ActionSelectWord))))
                ELSE capture_event(publish(invalidate_layout(focus_now(stored, time)),
                                           OnEdit(ActionClick(click.position))))
          [] click.kind = "Triple" ->
                IF is_focused(r)
                THEN request_redraw(capture_event(publish(r, OnEdit(ActionSelectAll))))
                ELSE capture_event(publish(invalidate_layout(focus_now(r, time)),
                                           OnEdit(ActionClick(click.position))))

\* on_click with the Triple click stored as the other clicks are
on_click_storing_triple(click, r, time) ==
    LET stored == [r EXCEPT !.state.last_click = Some(click),
                            !.state.drag_click = Some(click.kind)]
    IN  CASE click.kind = "Single" ->
                IF is_focused(stored)
                THEN request_redraw(publish(capture_event(stored),
                                            OnEdit(ActionClick(click.position))))
                ELSE stored
          [] click.kind = "Double" ->
                IF is_focused(stored)
                THEN request_redraw(capture_event(publish(stored, OnEdit(ActionSelectWord))))
                ELSE capture_event(publish(invalidate_layout(focus_now(stored, time)),
                                           OnEdit(ActionClick(click.position))))
          [] click.kind = "Triple" ->
                IF is_focused(stored)
                THEN request_redraw(capture_event(publish(stored, OnEdit(ActionSelectAll))))
                ELSE capture_event(publish(invalidate_layout(focus_now(stored, time)),
                                           OnEdit(ActionClick(click.position))))

\* on_click with the Single click published whether the widget is focused
\* or not
on_click_publishing_unfocused(click, r, time) ==
    LET stored == [r EXCEPT !.state.last_click = Some(click),
                            !.state.drag_click = Some(click.kind)]
    IN  CASE click.kind = "Single" ->
                request_redraw(publish(capture_event(stored),
                                       OnEdit(ActionClick(click.position))))
          [] click.kind = "Double" ->
                IF is_focused(stored)
                THEN request_redraw(capture_event(publish(stored, OnEdit(ActionSelectWord))))
                ELSE capture_event(publish(invalidate_layout(focus_now(stored, time)),
                                           OnEdit(ActionClick(click.position))))
          [] click.kind = "Triple" ->
                IF is_focused(r)
                THEN request_redraw(capture_event(publish(r, OnEdit(ActionSelectAll))))
                ELSE capture_event(publish(invalidate_layout(focus_now(r, time)),
                                           OnEdit(ActionClick(click.position))))

on_click(click, r, time) ==
    LET stored == [r EXCEPT !.state.last_click = Some(click),
                            !.state.drag_click = Some(click.kind)]
    IN  CASE click.kind = "Single" ->
                IF is_focused(stored)
                THEN request_redraw(publish(capture_event(stored),
                                            OnEdit(ActionClick(click.position))))
                ELSE stored
          [] click.kind = "Double" ->
                IF is_focused(stored)
                THEN request_redraw(capture_event(publish(stored, OnEdit(ActionSelectWord))))
                ELSE capture_event(publish(invalidate_layout(focus_now(stored, time)),
                                           OnEdit(ActionClick(click.position))))
          [] click.kind = "Triple" ->
                IF is_focused(r)
                THEN request_redraw(capture_event(publish(r, OnEdit(ActionSelectAll))))
                ELSE capture_event(publish(invalidate_layout(focus_now(r, time)),
                                           OnEdit(ActionClick(click.position))))

\* update, the Update::Scroll arm; editor_height is the height of the bounds
\* of the content's editor, 2147483647 standing for every f32 from i32::MAX
\* up
\* on_scroll without its test of the height of the editor
on_scroll_of_any_height(delta, r, editor_height) ==
    LET lines == delta + r.state.partial_scroll IN
    publish([r EXCEPT !.state.partial_scroll = fract(lines)],
            OnEdit(ActionScroll(trunc(lines))))

\* on_scroll truncating every amount on its own: nothing is carried over
on_scroll_truncating_each(delta, r, editor_height) ==
    IF editor_height >= 2147483647 THEN r
    ELSE publish([r EXCEPT !.state.partial_scroll = fract(delta)],
                 OnEdit(ActionScroll(trunc(delta))))

on_scroll(delta, r, editor_height) ==
    IF editor_height >= 2147483647 THEN r
    ELSE LET lines == delta + r.state.partial_scroll IN
         publish([r EXCEPT !.state.partial_scroll = fract(lines)],
                 OnEdit(ActionScroll(trunc(lines))))

\* The Binding arm without the restart of the blink
on_binding_keeping_updated_at(binding, r, w, selection, clipboard, time) ==
    apply_binding(binding, r, w, selection, clipboard, time)

\* update, the Update::Binding arm: apply_binding, then the blink restarts
on_binding(binding, r, w, selection, clipboard, time) ==
    LET r1 == apply_binding(binding, r, w, selection, clipboard, time) IN
    IF is_focused(r1)
    THEN [r1 EXCEPT !.state.focus = Some([r1.state.focus.some EXCEPT !.updated_at = time])]
    ELSE r1

\* update with the Release arm clearing last_click as well.
update_release_clearing_last_click(state, in, time, macos) ==
    LET w == in.widget
        r0 == window_event(in.event, [state |-> state, shell |-> NewShell], time)
        classified == from_event(in.event, r0.state, LayoutBounds, w.padding, in.cursor,
                                 w.key_binding, time, macos)
        done(r, u) == [state |-> r.state, shell |-> r.shell, update |-> u]
    IN  IF ~w.on_edit THEN done(r0, None)
        ELSE IF classified.none THEN done(r0, None)
        ELSE LET u == classified.some IN
             done(CASE u.u = "Click" -> on_click(u.click, r0, time)
                    [] u.u = "Drag" -> publish(capture_event(r0), OnEdit(ActionDrag(u.position)))
                    [] u.u = "Release" -> [r0 EXCEPT !.state.drag_click = None,
                                                     !.state.last_click = None]
                    [] u.u = "Scroll" -> on_scroll(u.lines, r0, in.editor_height)
                    [] u.u = "Binding" ->
                          on_binding(u.binding, r0, w, in.selection, in.clipboard, time),
                  classified)

\* update without the return for a widget that has no on_edit.
update_without_on_edit(state, in, time, macos) ==
    LET w == in.widget
        r0 == window_event(in.event, [state |-> state, shell |-> NewShell], time)
        classified == from_event(in.event, r0.state, LayoutBounds, w.padding, in.cursor,
                                 w.key_binding, time, macos)
        done(r, u) == [state |-> r.state, shell |-> r.shell, update |-> u]
    IN  IF classified.none THEN done(r0, None)
        ELSE LET u == classified.some IN
             done(CASE u.u = "Click" -> on_click(u.click, r0, time)
                    [] u.u = "Drag" -> publish(capture_event(r0), OnEdit(ActionDrag(u.position)))
                    [] u.u = "Release" -> [r0 EXCEPT !.state.drag_click = None]
                    [] u.u = "Scroll" -> on_scroll(u.lines, r0, in.editor_height)
                    [] u.u = "Binding" ->
                          on_binding(u.binding, r0, w, in.selection, in.clipboard, time),
                  classified)

\* TextBox::update at instant time, for the input in: the event, the
\* cursor, the widget (on_edit, on_blur and on_submit say whether each is
\* set), the selection of the content, the height of its editor and the
\* contents of the clipboard. The result is the state, the shell and the
\* Update the event was read as.
update(state, in, time, macos) ==
    LET w == in.widget
        r0 == window_event(in.event, [state |-> state, shell |-> NewShell], time)
        classified == from_event(in.event, r0.state, LayoutBounds, w.padding, in.cursor,
                                 w.key_binding, time, macos)
        done(r, u) == [state |-> r.state, shell |-> r.shell, update |-> u]
    IN  IF ~w.on_edit THEN done(r0, None)
        ELSE IF classified.none THEN done(r0, None)
        ELSE LET u == classified.some IN
             done(CASE u.u = "Click" -> on_click(u.click, r0, time)
                    [] u.u = "Drag" -> publish(capture_event(r0), OnEdit(ActionDrag(u.position)))
                    [] u.u = "Release" -> [r0 EXCEPT !.state.drag_click = None]
                    [] u.u = "Scroll" -> on_scroll(u.lines, r0, in.editor_height)
                    [] u.u = "Binding" ->
                          on_binding(u.binding, r0, w, in.selection, in.clipboard, time),
                  classified)
\* ------------------------------------------------------------------------
\* The calls of update the model makes: events, cursors and widgets

\* The fields of the TextBox that update reads: whether on_edit, on_blur
\* and on_submit are set, the custom resolver's answer if there is one, and
\* the padding.
Widget(on_edit, on_blur, on_submit, key_binding, padding) ==
    [on_edit |-> on_edit, on_blur |-> on_blur, on_submit |-> on_submit,
     key_binding |-> key_binding, padding |-> padding]

\* TextBox::new(..).on_action(..) under a padding
Editable(padding) == Widget(TRUE, FALSE, FALSE, None, padding)

\* TextBox::new: no on_edit
ReadOnly == Widget(FALSE, FALSE, FALSE, None, Padding(5, 5, 5, 5))

Paddings == {Padding(5, 5, 5, 5), Padding(2, 1, 4, 3)}

\* One call of update: the event, the cursor, the widget, and what the
\* content and the clipboard answer when asked (the selection, the height
\* of the editor's bounds, the clipboard's contents)
Input(event, cursor, widget, selection, clipboard) ==
    [event |-> event, cursor |-> cursor, widget |-> widget,
     selection |-> selection, clipboard |-> clipboard, editor_height |-> 40]

\* Cursors over the widget: two within the click distance of each other and
\* one far from both
CursorsInside == {Some(Point(30, 40)), Some(Point(33, 44)), Some(Point(90, 40))}

CursorOutside == Some(Point(300, 300))

NoModifiers == [shift |-> FALSE, control |-> FALSE, alt |-> FALSE, logo |-> FALSE]

WithControl == [NoModifiers EXCEPT !.control = TRUE]

WithShift == [NoModifiers EXCEPT !.shift = TRUE]

WindowInputs(time) ==
    {Input(e, CursorOutside, w, None, None) :
        e \in {WindowUnfocused, WindowFocused, RedrawRequested(time)},
        w \in {Editable(Padding(5, 5, 5, 5)), ReadOnly}}

\* Events update does not read: another button, a key release
IgnoredInputs ==
    {Input(e, Some(Point(30, 40)), Editable(Padding(5, 5, 5, 5)), None, None) :
        e \in {ButtonPressed("Right"), KeyReleased(Named("Enter"))}}

PressInputs ==
    {Input(ButtonPressed("Left"), c, Editable(Padding(5, 5, 5, 5)), None, None) :
        c \in CursorsInside}
        \cup {Input(ButtonPressed("Left"), Some(Point(30, 40)), Editable(p), None, None) :
                p \in Paddings}
        \cup {Input(ButtonPressed("Left"), CursorOutside,
                    Widget(TRUE, on_blur, FALSE, None, Padding(5, 5, 5, 5)), None, None) :
                on_blur \in BOOLEAN}
        \cup {Input(ButtonPressed("Left"), c, ReadOnly, None, None) :
                c \in {Some(Point(30, 40)), None}}

ReleaseInputs ==
    {Input(ButtonReleased("Left"), Some(Point(30, 40)), w, None, None) :
        w \in {Editable(Padding(5, 5, 5, 5)), ReadOnly}}

MoveInputs ==
    {Input(CursorMoved, c, Editable(p), None, None) :
        c \in {Some(Point(33, 44)), CursorOutside}, p \in Paddings}
        \cup {Input(CursorMoved, Some(Point(33, 44)), ReadOnly, None, None)}

\* Line deltas of 0.1, -0.1, 0 and 0.5 lines, pixel deltas of 2, -2 and 6
\* pixels, in fortieths
WheelDeltas ==
    {WheelScrolled("Lines", y) : y \in {4, 0 - 4, 0, 20}}
        \cup {WheelScrolled("Pixels", y) : y \in {80, 0 - 80, 240}}

WheelInputs ==
    {Input(e, Some(Point(30, 40)), Editable(Padding(5, 5, 5, 5)), None, None) :
        e \in WheelDeltas}
        \cup {Input(WheelScrolled("Lines", 4), c, w, None, None) :
                c \in {CursorOutside}, w \in {Editable(Padding(5, 5, 5, 5))}}
        \cup {Input(WheelScrolled("Lines", 4), Some(Point(30, 40)), ReadOnly, None, None)}
        \cup {[Input(e, Some(Point(30, 40)), Editable(Padding(5, 5, 5, 5)), None, None)
                   EXCEPT !.editor_height = INFINITY] :
                e \in {WheelScrolled("Lines", 4), WheelScrolled("Pixels", 80)}}

\* Key presses read by the default resolver
KeyEvents ==
    {KeyPressed(Named(k), NoModifiers, None) :
        k \in {"Enter", "Backspace", "Delete", "Escape", "ArrowLeft", "Tab"}}
        \cup {KeyPressed(Character(c), WithControl, None) : c \in {"c", "x", "v", "a"}}
        \cup {KeyPressed(Named("ArrowLeft"), WithShift, None),
              KeyPressed(Character("z"), NoModifiers, Some(<<"z">>))}

KeyInput(e) ==
    Input(e, CursorOutside,
          Widget(TRUE, e.key = Named("Escape"), FALSE, None, Padding(5, 5, 5, 5)),
          IF e.key \in {Character("c"), Character("x")} THEN Some("selection") ELSE None,
          IF e.key = Character("v") THEN Some("contents") ELSE None)

\* Each key press where its binding acts, then Escape without on_blur, cut
\* without a selection, paste from an empty clipboard, a key press of a
\* widget without on_edit and Enter for a widget with on_submit
KeyInputs ==
    {KeyInput(e) : e \in KeyEvents}
        \cup {Input(KeyPressed(Named("Escape"), NoModifiers, None), CursorOutside,
                    Editable(Padding(5, 5, 5, 5)), None, None),
              Input(KeyPressed(Character("x"), WithControl, None), CursorOutside,
                    Editable(Padding(5, 5, 5, 5)), None, None),
              Input(KeyPressed(Character("v"), WithControl, None), CursorOutside,
                    Editable(Padding(5, 5, 5, 5)), None, None),
              Input(KeyPressed(Named("Enter"), NoModifiers, None), CursorOutside,
                    ReadOnly, None, None),
              Input(KeyPressed(Named("Enter"), NoModifiers, None), CursorOutside,
                    Widget(TRUE, FALSE, TRUE, None, Padding(5, 5, 5, 5)), None, None)}

\* A message of the application
AppMessage == [text |-> "message"]

\* What a custom resolver may answer to a key press
CustomAnswers ==
    {None, Some(Submit), Some(Custom(AppMessage)), Some(SelectLine), Some(SelectWord),
     Some(Backspace), Some(Copy), Some(Cut), Some(Sequence(<<Cut, Submit>>))}

\* The key presses handed to the custom resolvers: Enter under each status
CustomKeyPresses ==
    {[key |-> Named("Enter"), modifiers |-> NoModifiers, text |-> None, status |-> s] :
        s \in Statuses}

\* The custom resolver that gives one answer whatever the key press
Always(answer) == [key_press \in CustomKeyPresses |-> answer]

\* The custom resolver that answers with a message holding the key press it
\* was given
EchoKeyPress == [key_press \in CustomKeyPresses |-> Some(Custom(key_press))]

CustomKeyInput(answer) ==
    Input(KeyPressed(Named("Enter"), NoModifiers, None), CursorOutside,
          Widget(TRUE, FALSE, answer \in {Some(Submit), Some(Sequence(<<Cut, Submit>>))},
                 Some(Always(answer)), Padding(5, 5, 5, 5)),
          Some("selection"), None)

\* Each answer, then Submit without on_submit, Submit with on_blur and
\* on_submit, the resolver that gives back its key press, Paste with contents in the
\* clipboard and Copy without a selection
CustomKeyInputs ==
    {CustomKeyInput(answer) : answer \in CustomAnswers}
        \cup {Input(KeyPressed(Named("Enter"), NoModifiers, None), CursorOutside,
                    Widget(TRUE, on_blur, on_blur, Some(Always(Some(Submit))),
                           Padding(5, 5, 5, 5)),
                    None, None) : on_blur \in BOOLEAN}
        \cup {Input(KeyPressed(Named("Enter"), NoModifiers, None), CursorOutside,
                    Widget(TRUE, FALSE, FALSE, Some(EchoKeyPress), Padding(5, 5, 5, 5)),
                    None, None),
              Input(KeyPressed(Named("Enter"), NoModifiers, None), CursorOutside,
                    Widget(TRUE, FALSE, FALSE, Some(Always(Some(Paste))), Padding(5, 5, 5, 5)),
                    None, Some("contents")),
              Input(KeyPressed(Named("Enter"), NoModifiers, None), CursorOutside,
                    Widget(TRUE, FALSE, FALSE, Some(Always(Some(Copy))), Padding(5, 5, 5, 5)),
                    None, None)}

Inputs(time) ==
    WindowInputs(time) \cup IgnoredInputs \cup PressInputs \cup ReleaseInputs
        \cup MoveInputs \cup WheelInputs \cup KeyInputs \cup CustomKeyInputs
\* ------------------------------------------------------------------------
\* The components at rest: what each holds while another one is exercised

KeyIdle ==
    /\ target_macos = FALSE
    /\ keyIn = [key |-> Unidentified,
                modifiers |-> [shift |-> FALSE, control |-> FALSE,
                               alt |-> FALSE, logo |-> FALSE],
                text |-> None, status |-> "Active"]
    /\ keyOut = Pending

BlinkIdle ==
    /\ blinkIn = FocusNow(0)
    /\ blinkOut = Pending

\* Content::new()
ContentIdle ==
    /\ textIn = Some(<<>>)
    /\ editor = with_text(<<>>)
    /\ is_dirty = TRUE
    /\ textOut = Pending

\* The widget laid out by default: TextBox::new
DefaultLayoutInput ==
    [widget |-> [width |-> Fill, height |-> Shrink, padding |-> Padding(5, 5, 5, 5),
                 spans |-> <<"span">>, shape |-> "shape",
                 highlighter_format |-> "format1",
                 highlighter_settings |-> "settings1"],
     limits |-> Limits(Size(0, 0), Size(100, 40)),
     paragraph_min_bounds |-> Size(60, 16),
     editor_min_bounds |-> Size(70, 6)]

\* Widget::state(): the layout part of State as constructed for widget w
StateOf(w) ==
    /\ spans = <<>>
    /\ paragraph = DefaultParagraph
    /\ highlighter = w.highlighter_settings
    /\ highlighter_settings = w.highlighter_settings
    /\ highlighter_format_address = w.highlighter_format

LayoutIdle ==
    /\ layIn = DefaultLayoutInput
    /\ layOut = Pending
    /\ editor_bounds = ZERO
    /\ StateOf(DefaultLayoutInput.widget)

FocusIdle == focus = None

\* No call of update observed yet
NothingObserved == [run |-> <<>>, released |-> FALSE, latest |-> None, idle_wheels |-> 0,
                    unpublished |-> 0]

\* Widget::state(): the interaction part of State, before any call of update
WidgetIdle ==
    /\ last_click = NewState.last_click
    /\ drag_click = NewState.drag_click
    /\ partial_scroll = NewState.partial_scroll
    /\ clock = 0
    /\ shell = NewShell
    /\ handled = Pending
    /\ observed = NothingObserved

\* ------------------------------------------------------------------------
\* The resolver applied to every key press of the bounded set

InitKey ==
    /\ target_macos \in BOOLEAN
    /\ keyIn \in KeyPresses
    /\ keyOut = Pending
    /\ BlinkIdle
    /\ ContentIdle
    /\ FocusIdle
    /\ LayoutIdle
    /\ WidgetIdle

Resolve ==
    /\ keyOut = Pending
    /\ keyOut' = from_key_press(keyIn, target_macos)
    /\ UNCHANGED <<target_macos, keyIn, blinkVars, contentVars, focus, layoutVars, widgetVars>>

NextKey == Resolve

SpecKey == InitKey /\ [][NextKey]_vars

\* ------------------------------------------------------------------------
\* The blink phase of every focus record of the bounded set

InitBlink ==
    /\ blinkIn \in FocusRecords
    /\ blinkOut = Pending
    /\ KeyIdle
    /\ ContentIdle
    /\ FocusIdle
    /\ LayoutIdle
    /\ WidgetIdle

Blink ==
    /\ blinkOut = Pending
    /\ blinkOut' = Some(is_cursor_visible(blinkIn))
    /\ UNCHANGED <<target_macos, keyVars, blinkIn, contentVars, focus, layoutVars, widgetVars>>

NextBlink == Blink

SpecBlink == InitBlink /\ [][NextBlink]_vars

\* ------------------------------------------------------------------------
\* Content: built from a string, edited through perform, read through text

\* Content::with_text(s)
InitContent ==
    /\ textIn \in {Some(s) : s \in Strings}
    /\ editor = with_text(textIn.some)
    /\ is_dirty = TRUE
    /\ textOut = Pending
    /\ KeyIdle
    /\ BlinkIdle
    /\ FocusIdle
    /\ LayoutIdle
    /\ WidgetIdle

\* The buffers one edit of the editor can make of ed: a line replaced, a
\* line inserted or a line removed (the editor is the renderer's; its
\* edits are not the widget's to restrict).
Edits(ed) ==
    {[ed EXCEPT ![i] = l] : i \in 1..Len(ed), l \in EditedLines}
        \cup (IF Len(ed) < MaxLines
              THEN {SubSeq(ed, 1, i) \o <<l>> \o SubSeq(ed, i + 1, Len(ed)) :
                        i \in 0..Len(ed), l \in EditedLines}
              ELSE {})
        \cup (IF Len(ed) > 1
              THEN {SubSeq(ed, 1, i - 1) \o SubSeq(ed, i + 1, Len(ed)) : i \in 1..Len(ed)}
              ELSE {})

\* Content::perform
Perform ==
    /\ editor' \in Edits(editor)
    /\ is_dirty' = TRUE
    /\ textIn' = None
    /\ textOut' = Pending
    /\ UNCHANGED <<target_macos, keyVars, blinkVars, focus, layoutVars, widgetVars>>

\* Content::text
ReadText ==
    /\ textOut' = Some(text(editor))
    /\ UNCHANGED <<target_macos, keyVars, blinkVars, textIn, editor, is_dirty, focus, layoutVars, widgetVars>>

NextContent == Perform \/ ReadText

SpecContent == InitContent /\ [][NextContent]_vars

\* ------------------------------------------------------------------------
\* Layout passes over the bounded widgets, limits and measures, focused and
\* unfocused, on a State constructed under any highlighter configuration

InitLayout ==
    /\ layIn \in LayoutInputs
    /\ layOut = Pending
    /\ focus \in {None, Some(FocusNow(0))}
    /\ editor_bounds = ZERO
    /\ \E w \in LayoutWidgets : StateOf(w)
    /\ KeyIdle
    /\ BlinkIdle
    /\ ContentIdle
    /\ WidgetIdle

\* The pass that pushes the new settings without taking a snapshot of them
LayoutWithoutSnapshot(in) ==
    LET w == in.widget
        node == layout(~focus.none, in)
        bounds == with_lengths(node.content_limits, w.width, w.height).max
        format_changed == highlighter_format_address # w.highlighter_format
        settings_changed == highlighter_settings # w.highlighter_settings
    IN  /\ paragraph' = cached_paragraph(spans, paragraph, w.spans, w.shape, bounds)
        /\ spans' = w.spans
        /\ highlighter_format_address' = w.highlighter_format
        /\ highlighter_settings' = highlighter_settings
        /\ highlighter' = IF settings_changed THEN w.highlighter_settings ELSE highlighter
        /\ editor_bounds' = node.children[3]
        /\ layOut' = Some([node |-> node,
                           change_line |-> format_changed,
                           update |-> settings_changed])
        /\ layIn' = in
        /\ UNCHANGED <<target_macos, keyVars, blinkVars, contentVars, focus, widgetVars>>

\* TextBox::layout of the widget, under the limits and with the measures
\* of in
LayoutWith(in) ==
    LET w == in.widget
        node == layout(~focus.none, in)
        bounds == with_lengths(node.content_limits, w.width, w.height).max
        format_changed == highlighter_format_address # w.highlighter_format
        settings_changed == highlighter_settings # w.highlighter_settings
    IN  /\ paragraph' = cached_paragraph(spans, paragraph, w.spans, w.shape, bounds)
        /\ spans' = w.spans
        /\ highlighter_format_address' = w.highlighter_format
        /\ highlighter_settings' = w.highlighter_settings
        /\ highlighter' = IF settings_changed THEN w.highlighter_settings ELSE highlighter
        /\ editor_bounds' = node.children[3]
        /\ layOut' = Some([node |-> node,
                           change_line |-> format_changed,
                           update |-> settings_changed])
        /\ layIn' = in
        /\ UNCHANGED <<target_macos, keyVars, blinkVars, contentVars, focus, widgetVars>>

Layout == LayoutWith(layIn)

NextLayout == Layout

SpecLayout == InitLayout /\ [][NextLayout]_vars


\* ------------------------------------------------------------------------
\* The widget: calls of update as time passes

\* What has been observed after update has handled the input in at instant
\* time, the widget being focused or not before the call and the call
\* having published messages. A left press inside the bounds of a focused
\* widget with on_edit extends the run (of at most four presses) if it follows a released press of the
\* run at the same cursor and padding by at most 300 ms, and starts a run
\* if no press came in the last 300 ms; a release keeps the run; any other
\* event ends it. idle_wheels counts the wheel events of 0.1 line in a row
\* that a widget with on_edit and a bounded editor got under the cursor
\* without publishing a scroll by a line or more.
observe(o, in, focused, time, messages) ==
    LET e == in.event
        pressed == e.type = "ButtonPressed" /\ e.button = "Left"
        press == [cursor |-> in.cursor, padding |-> in.widget.padding,
                  time |-> time, messages |-> messages]
        qualifies == pressed /\ in.widget.on_edit /\ focused
                         /\ is_over(in.cursor, LayoutBounds)
        continues == /\ o.run # <<>>
                     /\ Len(o.run) < 4
                     /\ o.released
                     /\ o.run[Len(o.run)].cursor = in.cursor
                     /\ o.run[Len(o.run)].padding = in.widget.padding
                     /\ time > o.run[Len(o.run)].time
                     /\ time - o.run[Len(o.run)].time <= 300
        fresh == o.latest.none \/ time - o.latest.some > 300
        latest == IF pressed THEN Some(time) ELSE o.latest
        tenth == /\ e.type = "WheelScrolled" /\ e.unit = "Lines" /\ e.y = 4
                 /\ in.widget.on_edit /\ is_over(in.cursor, LayoutBounds)
                 /\ in.editor_height < INFINITY
        whole == \E i \in 1..Len(messages) :
                    /\ messages[i].m = "on_edit"
                    /\ messages[i].action.a = "Scroll"
                    /\ messages[i].action.lines # 0
        idle_wheels == IF tenth /\ ~whole THEN o.idle_wheels + 1 ELSE 0
    IN  CASE qualifies /\ continues ->
                [run |-> Append(o.run, press), released |-> FALSE, latest |-> latest,
                 idle_wheels |-> idle_wheels, unpublished |-> o.unpublished]
          [] qualifies /\ ~continues /\ fresh ->
                [run |-> <<press>>, released |-> FALSE, latest |-> latest,
                 idle_wheels |-> idle_wheels, unpublished |-> o.unpublished]
          [] e.type = "ButtonReleased" /\ e.button = "Left" /\ in.widget.on_edit
                 /\ o.run # <<>> ->
                [o EXCEPT !.released = TRUE, !.idle_wheels = idle_wheels]
          [] OTHER -> [run |-> <<>>, released |-> FALSE, latest |-> latest,
                       idle_wheels |-> idle_wheels, unpublished |-> o.unpublished]

\* The lines of the Scroll actions among the messages, summed
RECURSIVE published_lines(_)
published_lines(messages) ==
    IF messages = <<>> THEN 0
    ELSE LET m == Head(messages) IN
         (IF m.m = "on_edit" /\ m.action.a = "Scroll" THEN m.action.lines ELSE 0)
             + published_lines(Tail(messages))

\* The amounts that update read from the wheel for a widget with on_edit
\* and a bounded editor, less the lines it published: unpublished is the
\* sum of the former minus the sum of the latter, in fortieths of a line.
account(o, in, read, messages) ==
    IF ~read.none /\ read.some.u = "Scroll" /\ in.editor_height < INFINITY
    THEN [o EXCEPT !.unpublished = @ + read.some.lines - OneLine * published_lines(messages)]
    ELSE o

\* State as update finds it
CurrentState ==
    [focus |-> focus, last_click |-> last_click, drag_click |-> drag_click,
     partial_scroll |-> partial_scroll]

\* Widget::state()
Init ==
    /\ KeyIdle
    /\ BlinkIdle
    /\ ContentIdle
    /\ LayoutIdle
    /\ FocusIdle
    /\ WidgetIdle

\* A call of update that marks the Content clean
HandleEvent_clearing_dirty(in) ==
    LET r == update(CurrentState, in, clock, target_macos) IN
    /\ focus' = r.state.focus
    /\ last_click' = r.state.last_click
    /\ drag_click' = r.state.drag_click
    /\ partial_scroll' = r.state.partial_scroll
    /\ shell' = r.shell
    /\ handled' = Some([in |-> in, update |-> r.update])
    /\ observed' = account(observe(observed, in, ~focus.none, clock, r.shell.messages),
                            in, r.update, r.shell.messages)
    /\ is_dirty' = FALSE
    /\ UNCHANGED <<target_macos, keyVars, blinkVars, textIn, editor, textOut, layoutVars,
                   clock>>

\* TextBox::update
HandleEvent(in) ==
    LET r == update(CurrentState, in, clock, target_macos) IN
    /\ focus' = r.state.focus
    /\ last_click' = r.state.last_click
    /\ drag_click' = r.state.drag_click
    /\ partial_scroll' = r.state.partial_scroll
    /\ shell' = r.shell
    /\ handled' = Some([in |-> in, update |-> r.update])
    /\ observed' = account(observe(observed, in, ~focus.none, clock, r.shell.messages),
                            in, r.update, r.shell.messages)
    /\ UNCHANGED <<target_macos, keyVars, blinkVars, contentVars, layoutVars, clock>>

\* The runtime hands the widget an event
Update ==
    /\ handled = Pending
    /\ \E in \in Inputs(clock) : HandleEvent(in)

\* update has returned: the runtime takes what the shell holds
Return ==
    /\ handled # Pending
    /\ shell' = NewShell
    /\ handled' = Pending
    /\ UNCHANGED <<target_macos, keyVars, blinkVars, contentVars, focus, layoutVars,
                   last_click, drag_click, partial_scroll, clock, observed>>

\* TextBox::operate with a focus operation: operation.focusable hands it
\* the State, which it focuses (the operation names this widget) or
\* unfocuses (it names another one)
Operate ==
    /\ handled = Pending
    /\ \E focused \in BOOLEAN :
          focus' = IF focused THEN Some(FocusNow(clock)) ELSE None
    /\ observed' = [observed EXCEPT !.run = <<>>, !.released = FALSE]
    /\ UNCHANGED <<target_macos, keyVars, blinkVars, contentVars, layoutVars,
                   last_click, drag_click, partial_scroll, clock, shell, handled>>

\* Time passes between two events
Tick ==
    /\ handled = Pending
    /\ clock < MaxTicks * TimeStep
    /\ clock' = clock + TimeStep
    /\ UNCHANGED <<target_macos, keyVars, blinkVars, contentVars, focus, layoutVars,
                   last_click, drag_click, partial_scroll, shell, handled, observed>>

Next == Update \/ Return \/ Operate \/ Tick

Spec == Init /\ [][Next]_vars

\* ------------------------------------------------------------------------
\* The widget over several blink intervals: window events, redraw ticks and
\* key presses

\* Sequences a custom resolver may answer: one that unfocuses half way, one
\* that submits in a nested sequence, one that only copies and publishes
SequenceAnswers ==
    {Some(Sequence(<<Insert("a"), Unfocus, Insert("b"), Custom(AppMessage)>>)),
     Some(Sequence(<<Sequence(<<Move("Left"), Submit>>), Enter, Custom(AppMessage)>>)),
     Some(Sequence(<<Insert("a"), Sequence(<<Insert("b"), Insert("c")>>), Insert("d")>>)),
     Some(Sequence(<<Copy, Custom(AppMessage)>>))}

SequenceInput(answer) ==
    Input(KeyPressed(Named("Enter"), NoModifiers, None), CursorOutside,
          Widget(TRUE, TRUE, TRUE, Some(Always(answer)), Padding(5, 5, 5, 5)),
          Some("selection"), None)

\* The window events, the key presses of the default resolver that unfocus,
\* insert and copy, and those of custom resolvers
BlinkInputs(time) ==
    WindowInputs(time)
        \cup {KeyInput(e) : e \in {KeyPressed(Named("Escape"), NoModifiers, None),
                                   KeyPressed(Character("z"), NoModifiers, Some(<<"z">>)),
                                   KeyPressed(Character("c"), WithControl, None)}}
        \cup {CustomKeyInput(answer) :
                answer \in {None, Some(Submit), Some(Custom(AppMessage)), Some(Copy)}}
        \cup {SequenceInput(answer) : answer \in SequenceAnswers}

\* The runtime hands the widget one of these events
UpdateBlink ==
    /\ handled = Pending
    /\ \E in \in BlinkInputs(clock) : HandleEvent(in)

\* Time passes between two events
TickBlink ==
    /\ handled = Pending
    /\ clock < MaxBlinkSteps * BlinkStep
    /\ clock' = clock + BlinkStep
    /\ UNCHANGED <<target_macos, keyVars, blinkVars, contentVars, focus, layoutVars,
                   last_click, drag_click, partial_scroll, shell, handled, observed>>

NextBlinkTimer == UpdateBlink \/ Return \/ Operate \/ TickBlink

SpecBlinkTimer == Init /\ [][NextBlinkTimer]_vars

\* ------------------------------------------------------------------------
\* The widget under fast runs of presses: a press every ClickStep ms

\* Presses, releases and cursor moves
ClickInputs == PressInputs \cup ReleaseInputs \cup MoveInputs

\* The runtime hands the widget one of these events
UpdateMouse ==
    /\ handled = Pending
    /\ \E in \in ClickInputs : HandleEvent(in)

\* Time passes between two events
TickClick ==
    /\ handled = Pending
    /\ clock < MaxClickSteps * ClickStep
    /\ clock' = clock + ClickStep
    /\ UNCHANGED <<target_macos, keyVars, blinkVars, contentVars, focus, layoutVars,
                   last_click, drag_click, partial_scroll, shell, handled, observed>>

NextClicks == UpdateMouse \/ Return \/ Operate \/ TickClick

SpecClicks == Init /\ [][NextClicks]_vars

\* ------------------------------------------------------------------------
\* The widget and its Content: the application performs edits between the
\* calls of update

\* One event of each kind update reads
EditingInputs(time) ==
    {Input(ButtonPressed("Left"), Some(Point(30, 40)), Editable(Padding(5, 5, 5, 5)),
           None, None),
     Input(CursorMoved, Some(Point(33, 44)), Editable(Padding(5, 5, 5, 5)), None, None),
     Input(ButtonReleased("Left"), Some(Point(30, 40)), Editable(Padding(5, 5, 5, 5)),
           None, None),
     Input(WheelScrolled("Pixels", 80), Some(Point(30, 40)), Editable(Padding(5, 5, 5, 5)),
           None, None),
     Input(WindowUnfocused, CursorOutside, Editable(Padding(5, 5, 5, 5)), None, None),
     Input(RedrawRequested(time), CursorOutside, Editable(Padding(5, 5, 5, 5)), None, None),
     KeyInput(KeyPressed(Character("z"), NoModifiers, Some(<<"z">>))),
     KeyInput(KeyPressed(Named("Backspace"), NoModifiers, None)),
     KeyInput(KeyPressed(Character("x"), WithControl, None)),
     CustomKeyInput(Some(Submit))}

\* The runtime hands the widget one of these events
UpdateEditing ==
    /\ handled = Pending
    /\ \E in \in EditingInputs(clock) : HandleEvent(in)

NextEditing == UpdateEditing \/ Return \/ Operate \/ Perform

SpecEditing == Init /\ [][NextEditing]_vars
\* ------------------------------------------------------------------------
\* Claims about the resolver (under SpecKey)

Resolved == keyOut # Pending

OnlyShift == [shift |-> TRUE, control |-> FALSE, alt |-> FALSE, logo |-> FALSE]

\* The platform's command modifier is held.
PlatformCommandHeld ==
    \/ target_macos /\ keyIn.modifiers.logo
    \/ ~target_macos /\ keyIn.modifiers.control

\* The key presses C2 names, whatever their status.
IsC2KeyPress ==
    \/ keyIn.key = Named("Escape")
    \/ keyIn.key = Character("c") /\ PlatformCommandHeld
    \/ keyIn.key = Named("ArrowLeft") /\ keyIn.modifiers = OnlyShift /\ keyIn.text.none

\* C2: while Focused, Escape resolves to Unfocus, command+c to Copy and
\* ArrowLeft with only shift and no text to Select(Left); the same key
\* presses with status Active resolve to no binding.
Thm_C2_DefaultBindings ==
    Resolved =>
        /\ keyIn.status = "Focused" /\ keyIn.key = Named("Escape")
              => keyOut = Some(Unfocus)
        /\ keyIn.status = "Focused" /\ keyIn.key = Character("c") /\ PlatformCommandHeld
              => keyOut = Some(Copy)
        /\ keyIn.status = "Focused" /\ keyIn.key = Named("ArrowLeft")
              /\ keyIn.modifiers = OnlyShift /\ keyIn.text.none
              => keyOut = Some(Select("Left"))
        /\ keyIn.status = "Active" /\ IsC2KeyPress => keyOut = None

Wit_C2_ShiftArrowLeft ==
    /\ Resolved
    /\ keyIn.status = "Focused"
    /\ keyIn.key = Named("ArrowLeft")
    /\ keyIn.modifiers = OnlyShift
    /\ keyIn.text.none
    /\ keyOut = Some(Select("Left"))

\* The text rule's result for a payload: Insert of the first character that
\* is not a control character, none if there is no such character.
TextRule(chars) ==
    LET printable == SelectSeq(chars, LAMBDA c : c \notin {"U+007F", "U+0009"}) IN
    IF printable = <<>> THEN None ELSE Some(Insert(printable[1]))

\* C8: while Focused, the Delete key resolves to Delete exactly when the key
\* press has no text payload or the payload is the single character U+007F;
\* with any other payload the result is that of the text rule.
Thm_C8_DeleteGuard ==
    Resolved /\ keyIn.status = "Focused" /\ keyIn.key = Named("Delete") =>
        IF keyIn.text.none \/ keyIn.text = Some(<<"U+007F">>)
        THEN keyOut = Some(Delete)
        ELSE keyOut # Some(Delete) /\ keyOut = TextRule(keyIn.text.some)

Wit_C8_DeleteWithDel ==
    /\ Resolved
    /\ keyIn.status = "Focused"
    /\ keyIn.key = Named("Delete")
    /\ keyIn.text = Some(<<"U+007F">>)
    /\ keyOut = Some(Delete)

\* The key press matches one of the fixed mappings of the resolver.
FixedMapping ==
    \/ keyIn.key \in {Named("Enter"), Named("Backspace"), Named("Escape")}
    \/ keyIn.key = Named("Delete")
          /\ (keyIn.text.none \/ keyIn.text = Some(<<"U+007F">>))
    \/ keyIn.key \in {Character("c"), Character("x"), Character("a")}
          /\ PlatformCommandHeld
    \/ keyIn.key = Character("v") /\ PlatformCommandHeld /\ ~keyIn.modifiers.alt

NavigationKeys ==
    {"ArrowLeft", "ArrowRight", "ArrowUp", "ArrowDown",
     "Home", "End", "PageUp", "PageDown"}

\* C9: while Focused, a key press that matches no fixed mapping and carries
\* a text payload resolves by the text rule alone (Insert of the first
\* non-control character, none for a payload of control characters only),
\* also when the key is a navigation key.
Thm_C9_TextRule ==
    Resolved /\ keyIn.status = "Focused" /\ ~FixedMapping /\ ~keyIn.text.none =>
        keyOut = TextRule(keyIn.text.some)

Wit_C9_ArrowWithText ==
    /\ Resolved
    /\ keyIn.status = "Focused"
    /\ keyIn.key = Named("ArrowLeft")
    /\ keyIn.text = Some(<<"U+0009", "z">>)
    /\ keyOut = Some(Insert("z"))

\* The motion of a navigation key.
KeyMotion(k) ==
    CASE k = "ArrowLeft" -> "Left"
      [] k = "ArrowRight" -> "Right"
      [] k = "ArrowUp" -> "Up"
      [] k = "ArrowDown" -> "Down"
      [] k = "Home" -> "Home"
      [] k = "End" -> "End"
      [] k = "PageUp" -> "PageUp"
      [] k = "PageDown" -> "PageDown"

\* Left and Right become Home and End.
ToLineBounds(m) == IF m = "Left" THEN "Home" ELSE IF m = "Right" THEN "End" ELSE m

\* Character and line motions become word and document motions.
Widened(m) ==
    IF m = "Left" THEN "WordLeft"
    ELSE IF m = "Right" THEN "WordRight"
    ELSE IF m = "Home" THEN "DocumentStart"
    ELSE IF m = "End" THEN "DocumentEnd"
    ELSE m

\* The jump modifier of the platform is held.
JumpHeld ==
    \/ target_macos /\ keyIn.modifiers.alt
    \/ ~target_macos /\ keyIn.modifiers.control

\* C10: while Focused, a navigation key without text resolves to the key's
\* motion, remapped to the line bounds under the macOS command modifier,
\* then widened under the jump modifier, as Select under shift and Move
\* otherwise; the remap comes before the widening.
Thm_C10_Navigation ==
    Resolved /\ keyIn.status = "Focused" /\ keyIn.text.none
        /\ keyIn.key.t = "Named" /\ keyIn.key.v \in NavigationKeys =>
        LET m0 == KeyMotion(keyIn.key.v)
            m1 == IF target_macos /\ keyIn.modifiers.logo THEN ToLineBounds(m0) ELSE m0
            m2 == IF JumpHeld THEN Widened(m1) ELSE m1
        IN  keyOut = Some([b |-> IF keyIn.modifiers.shift THEN "Select" ELSE "Move",
                           motion |-> m2])

Wit_C10_CommandJumpLeft ==
    /\ Resolved
    /\ target_macos
    /\ keyIn.status = "Focused"
    /\ keyIn.key = Named("ArrowLeft")
    /\ keyIn.text.none
    /\ keyIn.modifiers = [shift |-> FALSE, control |-> FALSE, alt |-> TRUE, logo |-> TRUE]
    /\ keyOut = Some(Move("DocumentStart"))

\* ------------------------------------------------------------------------
\* Claims about the blink phase (under SpecBlink)

Elapsed == blinkIn.now - blinkIn.updated_at

\* C3 as stated: with the window focused the caret is visible at an elapsed
\* time of 0 ms and of 999 ms and invisible at 500 ms and at 1499 ms; with
\* the window unfocused it is never visible.
Cex_C3_BlinkAsStated ==
    blinkOut # Pending =>
        /\ blinkIn.is_window_focused /\ Elapsed \in {0, 999} => blinkOut = Some(TRUE)
        /\ blinkIn.is_window_focused /\ Elapsed \in {500, 1499} => blinkOut = Some(FALSE)
        /\ ~blinkIn.is_window_focused => blinkOut = Some(FALSE)

\* C3, amended: with the window focused the caret is visible at an elapsed
\* time of 0 ms and of 1499 ms and invisible at 500 ms and at 999 ms; with
\* the window unfocused it is never visible.
Thm_C3_BlinkPhase ==
    blinkOut # Pending =>
        /\ blinkIn.is_window_focused /\ Elapsed \in {0, 1499} => blinkOut = Some(TRUE)
        /\ blinkIn.is_window_focused /\ Elapsed \in {500, 999} => blinkOut = Some(FALSE)
        /\ ~blinkIn.is_window_focused => blinkOut = Some(FALSE)

Wit_C3_InvisibleAt999 ==
    /\ blinkOut = Some(FALSE)
    /\ blinkIn.is_window_focused
    /\ Elapsed = 999

\* ------------------------------------------------------------------------
\* Claims about Content (under SpecContent)

\* What text() writes after line i of n lines.
Separator(ed, i) ==
    IF i = Len(ed) THEN <<>>
    ELSE IF ed[i].ending = "Lf" THEN <<"LF">>
    ELSE IF ed[i].ending = "Cr" THEN <<"CR">>
    ELSE IF ed[i].ending = "CrLf" THEN <<"CR", "LF">>
    ELSE IF ed[i].ending = "LfCr" THEN <<"LF", "CR">>
    ELSE <<"LF">>

\* Where line i starts in the joined text.
RECURSIVE StartOf(_, _)
StartOf(ed, i) ==
    IF i = 1 THEN 1
    ELSE StartOf(ed, i - 1) + Len(ed[i - 1].text) + Len(Separator(ed, i - 1))

\* C6: the text of a buffer built by with_text(s) is s; and text() is the
\* buffer's lines in order, each non-last line followed by its own line
\* ending (by the default one if it has none) and the last line by nothing.
Thm_C6_TextRoundTrip ==
    textOut # Pending =>
        /\ ~textIn.none => textOut = textIn
        /\ \A i \in 1..Len(editor) :
              SubSeq(textOut.some, StartOf(editor, i),
                     StartOf(editor, i) + Len(editor[i].text)
                        + Len(Separator(editor, i)) - 1)
                 = editor[i].text \o Separator(editor, i)
        /\ Len(textOut.some) = StartOf(editor, Len(editor) + 1) - 1

Wit_C6_MixedEndings ==
    /\ textIn = Some(<<"a", "CR", "LF", "LF">>)
    /\ Len(editor) = 3
    /\ textOut = Some(<<"a", "CR", "LF", "LF">>)

\* A line without ending that is not the last one is followed by the
\* default separator.
Wit_C6_InnerLineWithoutEnding ==
    /\ textOut # Pending
    /\ Len(editor) = 2
    /\ editor[1] = Line(<<"a">>, "None")
    /\ textOut = Some(<<"a", "LF">> \o editor[2].text)

\* ------------------------------------------------------------------------
\* Claims about layout (under SpecLayout)

LaidOut == layOut # Pending

\* The height left for the content by the limits: the widget's height
\* applied, the fitted padding taken off.
ContentLimitHeight == layOut.some.node.content_limits.max.height

\* The vertical padding of the pass.
VerticalPadding == layOut.some.node.padding.top + layOut.some.node.padding.bottom

\* The setting of C5: the editor's natural height exceeds the content-limit
\* height; the widget has the height Shrink of TextBox::new, the limits no
\* minimum height, and the span paragraph fits the content limits.
GrowthSetting ==
    /\ LaidOut
    /\ layIn.editor_min_bounds.height > ContentLimitHeight
    /\ layIn.widget.height = Shrink
    /\ layIn.limits.min.height = 0
    /\ layIn.paragraph_min_bounds.height <= ContentLimitHeight

\* C5: when the editor's natural height exceeds the content-limit height,
\* the final height is the editor's natural height plus the vertical
\* padding while focused, and the span paragraph's height plus the vertical
\* padding while unfocused.
Cex_C5_GrowthAndShrink ==
    GrowthSetting =>
        IF ~focus.none
        THEN layOut.some.node.size.height
                = layIn.editor_min_bounds.height + VerticalPadding
        ELSE layOut.some.node.size.height
                = layIn.paragraph_min_bounds.height + VerticalPadding

\* The unfocused half of C5 alone (it holds in this setting).
C5_UnfocusedHeight ==
    GrowthSetting /\ focus.none =>
        layOut.some.node.size.height
            = layIn.paragraph_min_bounds.height + VerticalPadding

\* What the focused height is instead: the padding is counted twice, once
\* in the editor's node and once in the expansion of the final bounds.
C5_FocusedHeightOfCode ==
    GrowthSetting /\ ~focus.none =>
        layOut.some.node.size.height
            = layIn.editor_min_bounds.height
                + vertical(layIn.widget.padding) + VerticalPadding


\* ------------------------------------------------------------------------
\* Claims about update

Run == observed.run

\* The press published one message, on_edit of a Click; under a padding
\* whose top and left are equal its position is the cursor's, relative to
\* the bounds and less the padding.
PublishedClick(press) ==
    /\ Len(press.messages) = 1
    /\ press.messages[1].m = "on_edit"
    /\ press.messages[1].action.a = "Click"
    /\ press.padding.top = press.padding.left =>
          press.messages[1].action.position =
              Point(press.cursor.some.x - LayoutBounds.x - press.padding.left,
                    press.cursor.some.y - LayoutBounds.y - press.padding.top)

\* C1: with on_edit set and the widget focused, three left presses in a row
\* inside the bounds at one position, each released and each within 300 ms
\* of the one before, publish Click(position), then SelectWord, then
\* SelectAll, in this order and nothing else.
Thm_C1_TripleClick ==
    /\ Len(Run) >= 1 => PublishedClick(Run[1])
    /\ Len(Run) >= 2 => Run[2].messages = <<OnEdit(ActionSelectWord)>>
    /\ Len(Run) >= 3 => Run[3].messages = <<OnEdit(ActionSelectAll)>>

\* The third press of such a run has been handled and released.
Wit_C1_ThirdPressReleased ==
    /\ Len(Run) = 3
    /\ observed.released
    /\ Run[3].time = Run[1].time + 2 * TimeStep

\* The call of update h handled a wheel event of 0.1 line over a widget
\* with on_edit whose editor has a bounded height.
TenthOfALine(h) ==
    /\ h # Pending
    /\ h.some.in.event.type = "WheelScrolled"
    /\ h.some.in.event.unit = "Lines"
    /\ h.some.in.event.y = 4
    /\ h.some.in.widget.on_edit
    /\ is_over(h.some.in.cursor, LayoutBounds)
    /\ h.some.in.editor_height < INFINITY

\* What such an event amounts to once classified: one line, negated.
TenthDelta == 0 - OneLine

\* The call published one message, a Scroll.
PublishedScroll(sh) ==
    /\ Len(sh.messages) = 1
    /\ sh.messages[1].m = "on_edit"
    /\ sh.messages[1].action.a = "Scroll"

\* C4 as stated: a wheel event of 0.1 line publishes a Scroll of nonzero
\* lines only once the remainder plus the classified delta reaches one line,
\* and leaves a remainder in [0, 1).
Cex_C4_ScrollAsStated ==
    [][TenthOfALine(handled') =>
          /\ PublishedScroll(shell')
          /\ shell'.messages[1].action.lines # 0 =>
                Abs(partial_scroll + TenthDelta) >= OneLine
          /\ partial_scroll' >= 0
          /\ partial_scroll' < OneLine]_vars

\* C4, amended: every wheel event of 0.1 line over the widget (bounded
\* editor, on_edit set) publishes one Scroll, of nonzero lines exactly when
\* the remainder plus the classified delta of minus one line reaches one
\* line in magnitude; at most one such event in a row publishes zero lines;
\* and the remainder left is strictly between -1 and 1.
Thm_C4_ScrollAccumulation ==
    [][TenthOfALine(handled') =>
          /\ PublishedScroll(shell')
          /\ shell'.messages[1].action.lines # 0 <=>
                Abs(partial_scroll + TenthDelta) >= OneLine
          /\ observed'.idle_wheels <= 1
          /\ Abs(partial_scroll') < OneLine]_vars

\* Such an event met a remainder of half a line: it published zero lines
\* and left a remainder of minus half a line.
Wit_C4_TenthBelowOneLine ==
    /\ TenthOfALine(handled)
    /\ shell.messages = <<OnEdit(ActionScroll(0))>>
    /\ partial_scroll = 0 - 20
    /\ observed.idle_wheels = 1

\* The call of update h handled a key press with the default resolver.
DefaultKeyPress(h) ==
    /\ h # Pending
    /\ h.some.in.event.type = "KeyPressed"
    /\ h.some.in.widget.key_binding = None

\* C7: a key press resolved by the default resolver for a widget that is
\* not focused yields no binding (the resolver answers none to a status
\* other than Focused), changes nothing of the state and publishes nothing.
Thm_C7_UnfocusedKeyPress ==
    [][(DefaultKeyPress(handled') /\ focus = None) =>
          /\ handled'.some.update = None
          /\ shell'.messages = <<>>
          /\ UNCHANGED <<focus, last_click, drag_click, partial_scroll>>]_vars

\* Backspace has been pressed on a widget with on_edit that is not focused.
Wit_C7_UnfocusedBackspace ==
    /\ DefaultKeyPress(handled)
    /\ handled.some.in.event.key = Named("Backspace")
    /\ handled.some.in.widget.on_edit
    /\ handled.some.update = None
    /\ focus = None

\* C7, the resolver alone: none for every key press whose status is not
\* Focused, whatever the key, the modifiers and the text.
C7_ResolverIgnoresUnfocused ==
    (keyOut # Pending /\ keyIn.status # "Focused") => keyOut = None

\* ------------------------------------------------------------------------
\* Claims about the arms of update

\* The call of update h read its event as a click of one of the kinds.
ClickOfKind(h, kinds) ==
    /\ h # Pending
    /\ ~h.some.update.none
    /\ h.some.update.some.u = "Click"
    /\ h.some.update.some.click.kind \in kinds

\* C11: with on_edit set, a Double or a Triple click inside the bounds of a
\* widget that is not focused focuses it, invalidates the layout, captures
\* the event and publishes Click(position), not SelectWord or SelectAll.
Thm_C11_FocusingClick ==
    [][(ClickOfKind(handled', {"Double", "Triple"}) /\ focus = None) =>
          /\ focus' = Some(FocusNow(clock))
          /\ shell'.layout_invalid
          /\ shell'.event_captured
          /\ shell'.messages =
                <<OnEdit(ActionClick(handled'.some.update.some.click.position))>>]_vars

\* A Triple click has focused the widget.
Wit_C11_TripleClickFocuses ==
    /\ ClickOfKind(handled, {"Triple"})
    /\ focus = Some(FocusNow(clock))
    /\ shell.layout_invalid
    /\ shell.messages = <<OnEdit(ActionClick(handled.some.update.some.click.position))>>

\* The call of update h handled a left press outside the bounds for a
\* widget with on_edit.
PressOutside(h) ==
    /\ h # Pending
    /\ h.some.in.event.type = "ButtonPressed"
    /\ h.some.in.event.button = "Left"
    /\ h.some.in.widget.on_edit
    /\ ~(~h.some.in.cursor.none /\ contains(LayoutBounds, h.some.in.cursor.some))

\* C12: with on_edit set, a left press outside the bounds of a focused
\* widget is read as Binding::Unfocus, removes the focus record, clears
\* drag_click and publishes on_blur if and only if it is set; for a widget
\* that is not focused it yields no update, no message and no change of
\* state.
Thm_C12_PressOutside ==
    [][PressOutside(handled') =>
          IF focus # None
          THEN /\ handled'.some.update = Some(UpdateBinding(Unfocus))
               /\ focus' = None
               /\ drag_click' = None
               /\ shell'.messages =
                     IF handled'.some.in.widget.on_blur THEN <<OnBlur>> ELSE <<>>
          ELSE /\ handled'.some.update = None
               /\ shell'.messages = <<>>
               /\ UNCHANGED <<focus, last_click, drag_click, partial_scroll>>]_vars

\* A press outside has unfocused a widget with on_blur that had been
\* clicked.
Wit_C12_BlurredByPressOutside ==
    /\ PressOutside(handled)
    /\ handled.some.update = Some(UpdateBinding(Unfocus))
    /\ shell.messages = <<OnBlur>>
    /\ focus = None
    /\ drag_click = None
    /\ last_click # None

\* The call of update h handled a move of the cursor for a widget with
\* on_edit.
CursorMove(h) ==
    /\ h # Pending
    /\ h.some.in.event.type = "CursorMoved"
    /\ h.some.in.widget.on_edit

\* C13: a move of the cursor is read as a Drag, captured and published as
\* Action::Drag, exactly when drag_click is Single and the cursor is inside
\* the bounds; otherwise (drag_click Double or none, or the cursor outside)
\* it yields no update and publishes nothing.
Thm_C13_Drag ==
    [][CursorMove(handled') =>
          IF /\ drag_click = Some("Single")
             /\ ~handled'.some.in.cursor.none
             /\ contains(LayoutBounds, handled'.some.in.cursor.some)
          THEN /\ ~handled'.some.update.none
               /\ handled'.some.update.some.u = "Drag"
               /\ shell'.event_captured
               /\ shell'.messages =
                     <<OnEdit(ActionDrag(handled'.some.update.some.position))>>
          ELSE /\ handled'.some.update = None
               /\ shell'.messages = <<>>
               /\ ~shell'.event_captured]_vars

\* The cursor has moved inside the bounds after a Double click: no drag.
C13_NoDragAfterDoubleClick ==
    /\ CursorMove(handled)
    /\ contains(LayoutBounds, handled.some.in.cursor.some)
    /\ drag_click = Some("Double")
    /\ handled.some.update = None

\* The cursor has dragged after a Single click.
Wit_C13_Dragged ==
    /\ CursorMove(handled)
    /\ drag_click = Some("Single")
    /\ shell.messages = <<OnEdit(ActionDrag(handled.some.update.some.position))>>

\* The call of update h read its event as the update u.
ReadAs(h, u) == h # Pending /\ h.some.update = Some(u)

\* C14 as stated: last_click and drag_click are both none after a release
\* has been handled and after the widget has lost its focus.
Cex_C14_BothCleared ==
    [][/\ ReadAs(handled', UpdateRelease) =>
              (last_click' = None /\ drag_click' = None)
       /\ (handled' # Pending /\ focus # None /\ focus' = None) =>
              (last_click' = None /\ drag_click' = None)]_vars

\* C14, amended: drag_click is cleared when a left release is handled and
\* when the Unfocus binding unfocuses the widget; last_click is cleared by
\* neither, and the Submit binding, which unfocuses too, clears neither.
Thm_C14_DragClickCleared ==
    [][/\ ReadAs(handled', UpdateRelease) =>
              (drag_click' = None /\ last_click' = last_click)
       /\ (ReadAs(handled', UpdateBinding(Unfocus)) /\ focus # None) =>
              (focus' = None /\ drag_click' = None /\ last_click' = last_click)
       /\ (ReadAs(handled', UpdateBinding(Submit)) /\ focus # None) =>
              (focus' = None /\ drag_click' = drag_click /\ last_click' = last_click)]_vars

\* A release has been handled after a click: the click is still there.
Wit_C14_ReleasedClickKept ==
    /\ ReadAs(handled, UpdateRelease)
    /\ drag_click = None
    /\ last_click # None

\* The call of update h was for a widget without on_edit.
WithoutOnEdit(h) == h # Pending /\ ~h.some.in.widget.on_edit

WindowEvents == {"WindowUnfocused", "WindowFocused", "RedrawRequested"}

\* C15: for a widget without on_edit, update publishes nothing, captures
\* nothing, writes nothing to the clipboard and reads the event as no
\* update; a mouse or keyboard event leaves the state and the shell as they
\* were, and the window events alone still act on the focus record.
Thm_C15_WithoutOnEdit ==
    [][WithoutOnEdit(handled') =>
          /\ shell'.messages = <<>>
          /\ ~shell'.event_captured
          /\ shell'.clipboard = <<>>
          /\ handled'.some.update = None
          /\ UNCHANGED <<last_click, drag_click, partial_scroll>>
          /\ handled'.some.in.event.type \notin WindowEvents =>
                (UNCHANGED focus /\ shell' = NewShell)
          /\ (handled'.some.in.event.type = "WindowUnfocused" /\ focus # None) =>
                focus' = Some([focus.some EXCEPT !.is_window_focused = FALSE])
          /\ (handled'.some.in.event.type = "WindowFocused" /\ focus # None) =>
                /\ focus' = Some([focus.some EXCEPT !.is_window_focused = TRUE,
                                                    !.updated_at = clock])
                /\ shell'.redraw
                /\ shell'.layout_invalid
          /\ (handled'.some.in.event.type = "RedrawRequested" /\ focus # None
                  /\ focus.some.is_window_focused) =>
                /\ focus' = Some([focus.some EXCEPT !.now = clock])
                /\ shell'.redraw_at # None]_vars

\* Enter has been pressed on a focused widget without on_edit.
Wit_C15_KeyPressWithoutOnEdit ==
    /\ WithoutOnEdit(handled)
    /\ handled.some.in.event.type = "KeyPressed"
    /\ focus # None
    /\ shell = NewShell

\* How many times on_blur is among the messages
BlurCount(messages) ==
    Cardinality({i \in 1..Len(messages) : messages[i] = OnBlur})

\* C16: when update takes the widget from focused to unfocused and on_blur
\* is configured, on_blur is published exactly once, by the Unfocus binding
\* and by the Submit binding alike; it is never published by an update that
\* found the widget unfocused.
Cex_C16_BlurPublishedOnce ==
    [][handled' # Pending =>
          /\ (focus # None /\ focus' = None /\ handled'.some.in.widget.on_blur) =>
                BlurCount(shell'.messages) = 1
          /\ focus = None => BlurCount(shell'.messages) = 0]_vars

\* What the code does of C16: the Unfocus binding publishes on_blur once if
\* it is configured, no update publishes it for an unfocused widget, and the
\* Submit binding unfocuses without publishing it.
C16_BlurOnUnfocusOnly ==
    [][handled' # Pending =>
          /\ (focus # None /\ handled'.some.in.widget.on_blur
                  /\ ReadAs(handled', UpdateBinding(Unfocus))) =>
                (focus' = None /\ BlurCount(shell'.messages) = 1)
          /\ (focus # None /\ ReadAs(handled', UpdateBinding(Submit))) =>
                (focus' = None /\ BlurCount(shell'.messages) = 0)
          /\ focus = None => BlurCount(shell'.messages) = 0]_vars

\* Submit has unfocused a widget that has on_blur and on_submit: on_submit
\* alone was published.
C16_SubmitWithoutBlur ==
    /\ ReadAs(handled, UpdateBinding(Submit))
    /\ handled.some.in.widget.on_blur
    /\ focus = None
    /\ shell.messages = <<OnSubmit>>

\* The bindings that publish an Action through on_edit
ActionBindings ==
    {"Move", "Select", "SelectWord", "SelectLine", "SelectAll", "Insert", "Enter",
     "Backspace", "Delete"}

\* The Action that goes with each of them
ActionOf(binding) ==
    CASE binding.b = "Move" -> ActionMove(binding.motion)
      [] binding.b = "Select" -> ActionSelect(binding.motion)
      [] binding.b = "SelectWord" -> ActionSelectWord
      [] binding.b = "SelectLine" -> ActionSelectLine
      [] binding.b = "SelectAll" -> ActionSelectAll
      [] binding.b = "Insert" -> ActionEdit(EditInsert(binding.c))
      [] binding.b = "Enter" -> ActionEdit(EditEnter)
      [] binding.b = "Backspace" -> ActionEdit(EditBackspace)
      [] binding.b = "Delete" -> ActionEdit(EditDelete)

\* The call of update h applied one of the bindings of the names.
AppliedBinding(h, names) ==
    /\ h # Pending
    /\ ~h.some.update.none
    /\ h.some.update.some.u = "Binding"
    /\ h.some.update.some.binding.b \in names

\* C17: Move, Select, SelectWord, SelectLine, SelectAll, Insert, Enter,
\* Backspace and Delete, applied to a focused widget, publish their Action
\* through on_edit and nothing else, focus the widget anew at the instant of
\* the call and request a redraw; applied to an unfocused widget they publish
\* nothing and leave it unfocused.
Thm_C17_PublishIfFocused ==
    [][AppliedBinding(handled', ActionBindings) =>
          IF focus # None
          THEN /\ shell'.messages = <<OnEdit(ActionOf(handled'.some.update.some.binding))>>
               /\ focus' = Some(FocusNow(clock))
               /\ shell'.redraw
          ELSE /\ shell'.messages = <<>>
               /\ focus' = None]_vars

\* A Move has been applied to a focused widget after the clock advanced: the
\* focus record is the one of this instant.
Wit_C17_MovedAndRefocused ==
    /\ AppliedBinding(handled, {"Move"})
    /\ shell.messages = <<OnEdit(ActionOf(handled.some.update.some.binding))>>
    /\ focus = Some(FocusNow(clock))
    /\ clock > 0
    /\ shell.redraw

\* A binding of these has been applied to an unfocused widget.
C17_AppliedWhileUnfocused ==
    /\ AppliedBinding(handled, {"SelectLine"})
    /\ focus = None
    /\ shell.messages = <<>>

\* C18: Submit applied to a focused widget publishes on_submit if it is
\* configured and nothing otherwise, removes the focus record and invalidates
\* the layout; applied to an unfocused widget it publishes nothing and leaves
\* the state and the shell as they were.
Thm_C18_Submit ==
    [][ReadAs(handled', UpdateBinding(Submit)) =>
          IF focus # None
          THEN /\ shell'.messages =
                     IF handled'.some.in.widget.on_submit THEN <<OnSubmit>> ELSE <<>>
               /\ focus' = None
               /\ shell'.layout_invalid
          ELSE /\ shell' = NewShell
               /\ UNCHANGED <<focus, last_click, drag_click, partial_scroll>>]_vars

\* Submit has been applied to a focused widget that has on_submit.
Wit_C18_Submitted ==
    /\ ReadAs(handled, UpdateBinding(Submit))
    /\ handled.some.in.widget.on_submit
    /\ shell.messages = <<OnSubmit>>
    /\ focus = None
    /\ shell.layout_invalid

\* Submit has been applied to a focused widget that has no on_submit.
C18_SubmittedWithoutMessage ==
    /\ ReadAs(handled, UpdateBinding(Submit))
    /\ ~handled.some.in.widget.on_submit
    /\ shell.messages = <<>>
    /\ shell.layout_invalid

\* Submit has been applied to an unfocused widget.
C18_SubmitWhileUnfocused ==
    /\ ReadAs(handled, UpdateBinding(Submit))
    /\ shell = NewShell

\* What a call of update that found this selection writes to the clipboard
WrittenSelection(h) ==
    IF h.some.in.selection.none THEN <<>> ELSE <<h.some.in.selection.some>>

\* C19: Copy and Cut write the selection to the clipboard exactly when there
\* is one, focused or not; Copy publishes nothing, Cut publishes Edit(Delete)
\* exactly when there is a selection and the widget is focused; Paste
\* publishes Edit(Paste(contents)) exactly when the clipboard has contents
\* and the widget is focused, and writes nothing to the clipboard.
Thm_C19_CopyCutPaste ==
    [][/\ ReadAs(handled', UpdateBinding(Copy)) =>
              /\ shell'.clipboard = WrittenSelection(handled')
              /\ shell'.messages = <<>>
       /\ ReadAs(handled', UpdateBinding(Cut)) =>
              /\ shell'.clipboard = WrittenSelection(handled')
              /\ shell'.messages =
                    IF ~handled'.some.in.selection.none /\ focus # None
                    THEN <<OnEdit(ActionEdit(EditDelete))>>
                    ELSE <<>>
       /\ ReadAs(handled', UpdateBinding(Paste)) =>
              /\ shell'.clipboard = <<>>
              /\ shell'.messages =
                    IF ~handled'.some.in.clipboard.none /\ focus # None
                    THEN <<OnEdit(ActionEdit(EditPaste(handled'.some.in.clipboard.some)))>>
                    ELSE <<>>]_vars

\* Cut has been applied to an unfocused widget with a selection: the
\* selection is in the clipboard and nothing was published.
C19_CutWhileUnfocused ==
    /\ ReadAs(handled, UpdateBinding(Cut))
    /\ focus = None
    /\ shell.clipboard = <<"selection">>
    /\ shell.messages = <<>>

\* Cut has been applied to a focused widget with a selection.
Wit_C19_CutSelection ==
    /\ ReadAs(handled, UpdateBinding(Cut))
    /\ shell.clipboard = <<"selection">>
    /\ shell.messages = <<OnEdit(ActionEdit(EditDelete))>>

\* Copy and Cut have been applied without a selection.
C19_CopyWithoutSelection ==
    /\ ReadAs(handled, UpdateBinding(Copy))
    /\ handled.some.in.selection.none
    /\ shell.clipboard = <<>>

C19_CutWithoutSelection ==
    /\ ReadAs(handled, UpdateBinding(Cut))
    /\ handled.some.in.selection.none
    /\ shell = NewShell

\* Paste has published the contents of the clipboard.
C19_Pasted ==
    /\ ReadAs(handled, UpdateBinding(Paste))
    /\ shell.messages = <<OnEdit(ActionEdit(EditPaste("contents")))>>
    /\ shell.clipboard = <<>>

\* Paste has been applied to an unfocused widget, and to an empty clipboard.
C19_PasteWhileUnfocused ==
    /\ ReadAs(handled, UpdateBinding(Paste))
    /\ ~handled.some.in.clipboard.none
    /\ focus = None
    /\ shell.messages = <<>>

C19_PasteOfNothing ==
    /\ ReadAs(handled, UpdateBinding(Paste))
    /\ handled.some.in.clipboard.none
    /\ focus # None
    /\ shell.messages = <<>>

\* The call of update h was for a key press on a widget that has on_edit and
\* a custom key_binding.
CustomKeyPress(h) ==
    /\ h # Pending
    /\ h.some.in.event.type = "KeyPressed"
    /\ h.some.in.widget.on_edit
    /\ ~h.some.in.widget.key_binding.none

\* The key press of the event of h for a widget that is focused or not
KeyPressOf(h, focused) ==
    [key |-> h.some.in.event.key, modifiers |-> h.some.in.event.modifiers,
     text |-> h.some.in.event.text,
     status |-> IF focused THEN "Focused" ELSE "Active"]

\* C20: with a custom key_binding, the event is read as the binding the
\* custom resolver answers to the key press, whose status is Focused for a
\* focused widget and Active otherwise, and as no update when it answers
\* none, whatever the default resolver makes of the key; the answer is
\* applied to an unfocused widget too, a Custom binding publishing its
\* message and requesting a redraw without focusing the widget.
Thm_C20_CustomResolver ==
    [][CustomKeyPress(handled') =>
          LET answer == handled'.some.in.widget.key_binding.some[
                            KeyPressOf(handled', focus # None)]
          IN  /\ handled'.some.update =
                    IF answer.none THEN None ELSE Some(UpdateBinding(answer.some))
              /\ answer.none =>
                    /\ shell' = NewShell
                    /\ UNCHANGED <<focus, last_click, drag_click, partial_scroll>>
              /\ (~answer.none /\ answer.some.b = "Custom") =>
                    /\ shell'.messages = <<CustomMessage(answer.some.message)>>
                    /\ shell'.redraw
                    /\ focus' = IF focus = None THEN None
                                ELSE Some([focus.some EXCEPT !.updated_at = clock])
                    /\ UNCHANGED <<last_click, drag_click, partial_scroll>>]_vars

\* The custom resolver has been given the key press of an unfocused widget,
\* with the status Active, and the message it answered has been published.
Wit_C20_AppliedWhileUnfocused ==
    /\ CustomKeyPress(handled)
    /\ focus = None
    /\ shell.messages = <<CustomMessage(KeyPressOf(handled, FALSE))>>
    /\ shell.redraw

\* The custom resolver has answered none to Enter on a focused widget, which
\* the default resolver reads as the Enter binding.
C20_NoneNotFallingBack ==
    /\ CustomKeyPress(handled)
    /\ focus # None
    /\ handled.some.in.event.key = Named("Enter")
    /\ ~from_key_press(KeyPressOf(handled, TRUE), target_macos).none
    /\ handled.some.update = None
    /\ shell = NewShell

\* The same resolver has been given the key press of a focused widget.
C20_AppliedWhileFocused ==
    /\ CustomKeyPress(handled)
    /\ focus # None
    /\ shell.messages = <<CustomMessage(KeyPressOf(handled, TRUE))>>

\* ------------------------------------------------------------------------
\* Claims about scrolling, the blink timer and the window events

\* The call of update h read its event as a Scroll.
ScrollUpdate(h) ==
    /\ h # Pending
    /\ ~h.some.update.none
    /\ h.some.update.some.u = "Scroll"

\* C21: a Scroll handled while the editor reports a height of i32::MAX or
\* more publishes nothing and leaves partial_scroll as it was; otherwise it
\* publishes one Scroll whose lines are the integer part, towards zero, of
\* the amount plus partial_scroll, and partial_scroll becomes what is left,
\* below one line in magnitude and of the sign of the sum.
Thm_C21_ScrollOrIgnore ==
    [][ScrollUpdate(handled') =>
          LET total == handled'.some.update.some.lines + partial_scroll IN
          IF handled'.some.in.editor_height >= INFINITY
          THEN /\ shell' = NewShell
               /\ partial_scroll' = partial_scroll
          ELSE /\ PublishedScroll(shell')
               /\ shell'.messages[1].action.lines * OneLine + partial_scroll' = total
               /\ Abs(partial_scroll') < OneLine
               /\ partial_scroll' * total >= 0]_vars

\* A Scroll has been ignored for an editor of unbounded height while half a
\* line was left over from the wheel events before.
Wit_C21_IgnoredScroll ==
    /\ ScrollUpdate(handled)
    /\ handled.some.in.editor_height >= INFINITY
    /\ partial_scroll # 0
    /\ shell = NewShell

\* A Scroll of a line and a half has been published as one line, half a line
\* being left over.
C21_ScrolledWithRemainder ==
    /\ ScrollUpdate(handled)
    /\ handled.some.in.editor_height < INFINITY
    /\ shell.messages = <<OnEdit(ActionScroll(0 - 1))>>
    /\ partial_scroll = 0 - 20

\* now - updated_at in ms, zero when updated_at is the later one
ElapsedMillis(f) == IF f.now >= f.updated_at THEN f.now - f.updated_at ELSE 0

\* The visibility C22 gives to the focus record f
BlinkVisible(f) == f.is_window_focused /\ (ElapsedMillis(f) \div 500) % 2 = 0

\* C22: in every state with a focus record the caret is blink-visible
\* exactly when the window is focused and the whole number of 500 ms in
\* now - updated_at, taken as zero when updated_at is later than now, is
\* even; draw paints the caret only with a focus record, and then exactly
\* when it is blink-visible, the cursor is a caret and it meets the bounds.
Thm_C22_BlinkVisibility ==
    /\ focus # None => (is_cursor_visible(focus.some) <=> BlinkVisible(focus.some))
    /\ \A cursor \in {"Caret", "Selection"}, clipped \in BOOLEAN :
          draw_caret(focus, cursor, clipped) <=>
              (focus # None /\ BlinkVisible(focus.some) /\ cursor = "Caret" /\ clipped)

\* A binding came after the last redraw tick of a focused widget:
\* updated_at is later than now and the caret is visible.
Wit_C22_UpdatedAfterNow ==
    /\ focus # None
    /\ focus.some.updated_at > focus.some.now
    /\ focus.some.is_window_focused
    /\ draw_caret(focus, "Caret", TRUE)

\* A redraw tick came between 500 and 1000 ms after updated_at: the caret is
\* not visible though the window is focused.
C22_SecondHalfOfThePeriod ==
    /\ focus # None
    /\ focus.some.is_window_focused
    /\ focus.some.now - focus.some.updated_at \in 500..999
    /\ ~draw_caret(focus, "Caret", TRUE)

\* The caret is visible again in the third interval.
C22_ThirdInterval ==
    /\ focus # None
    /\ focus.some.now - focus.some.updated_at \in 1000..1499
    /\ draw_caret(focus, "Caret", TRUE)

\* The window is not focused: the caret is not visible in the first interval.
C22_WindowUnfocused ==
    /\ focus # None
    /\ ~focus.some.is_window_focused
    /\ focus.some.now - focus.some.updated_at \in 0..499
    /\ ~draw_caret(focus, "Caret", TRUE)

\* The call of update h handled a redraw tick.
RedrawTick(h) == h # Pending /\ h.some.in.event.type = "RedrawRequested"

\* The widget is focused in a focused window.
Blinking(state_focus) == state_focus # None /\ state_focus.some.is_window_focused

\* C23: a redraw tick at instant now of a focused widget in a focused
\* window sets focus.now to now and requests the next redraw at now + d,
\* d = 500 - ((now - updated_at) mod 500): d is between 1 and 500, and the
\* instant is updated_at + k * 500 for the smallest k that puts it after now,
\* the tick, stamped as it is delivered, being no earlier than updated_at.
Thm_C23_NextRedraw ==
    [][(RedrawTick(handled') /\ Blinking(focus)) =>
          LET now == handled'.some.in.event.now
              updated_at == focus.some.updated_at
              d == 500 - ((now - updated_at) % 500)
              at == shell'.redraw_at.some
          IN  /\ now >= updated_at
              /\ focus' = Some([focus.some EXCEPT !.now = now])
              /\ shell'.redraw_at = Some(now + d)
              /\ d >= 1 /\ d <= 500
              /\ \E k \in 1..(MaxBlinkSteps + 1) :
                    /\ at = updated_at + k * 500
                    /\ at > now
                    /\ updated_at + (k - 1) * 500 <= now]_vars

\* A redraw tick came 499 ms after updated_at: the next one is due 1 ms
\* later.
Wit_C23_OneMillisecondLeft ==
    /\ RedrawTick(handled)
    /\ Blinking(focus)
    /\ focus.some.now = focus.some.updated_at + 499
    /\ shell.redraw_at = Some(focus.some.now + 1)

\* A redraw tick came at updated_at: the next one is due 500 ms later.
C23_WholeInterval ==
    /\ RedrawTick(handled)
    /\ Blinking(focus)
    /\ focus.some.now = focus.some.updated_at
    /\ shell.redraw_at = Some(focus.some.now + 500)

\* A redraw tick came in the third interval after updated_at.
C23_ThirdBoundary ==
    /\ RedrawTick(handled)
    /\ Blinking(focus)
    /\ shell.redraw_at = Some(focus.some.updated_at + 1500)

\* C24: a redraw tick asks for a redraw at a later instant exactly when the
\* widget has a focus record whose window is focused; without a focus record
\* or with the window unfocused it asks for nothing and changes nothing, and
\* no other event asks for a redraw at an instant.
Thm_C24_TimerRearmed ==
    [][handled' # Pending =>
          /\ RedrawTick(handled') =>
                /\ shell'.redraw_at # None <=> Blinking(focus)
                /\ ~Blinking(focus) => (shell' = NewShell /\ focus' = focus)
          /\ shell'.redraw_at # None => RedrawTick(handled')]_vars

\* A redraw tick has been handled by a focused widget whose window is not
\* focused: the timer is not armed again.
Wit_C24_NotRearmed ==
    /\ RedrawTick(handled)
    /\ focus # None
    /\ ~focus.some.is_window_focused
    /\ shell.redraw_at = None

\* A redraw tick has been handled, later on, by a widget without a focus
\* record.
C24_NotRearmedWithoutFocus ==
    /\ RedrawTick(handled)
    /\ focus = None
    /\ clock > 0
    /\ shell = NewShell

\* A redraw tick has armed the timer again.
C24_Rearmed ==
    /\ RedrawTick(handled)
    /\ Blinking(focus)
    /\ shell.redraw_at # None

\* The call of update h handled the window event of the type.
WindowEvent(h, type) == h # Pending /\ h.some.in.event.type = type

\* C25: a window unfocus sets is_window_focused of an existing focus record
\* to false and does nothing else; a window focus sets it to true, sets
\* updated_at to the instant of the call and requests a redraw and a layout
\* invalidation, and nothing else; without a focus record both request
\* nothing and create none.
Thm_C25_WindowEvents ==
    [][/\ (WindowEvent(handled', "WindowUnfocused") /\ focus # None) =>
              /\ focus' = Some([focus.some EXCEPT !.is_window_focused = FALSE])
              /\ shell' = NewShell
       /\ (WindowEvent(handled', "WindowFocused") /\ focus # None) =>
              /\ focus' = Some([focus.some EXCEPT !.is_window_focused = TRUE,
                                                  !.updated_at = clock])
              /\ shell' = [NewShell EXCEPT !.redraw = TRUE, !.layout_invalid = TRUE]
       /\ (\/ WindowEvent(handled', "WindowUnfocused")
           \/ WindowEvent(handled', "WindowFocused")) =>
              /\ focus = None => (focus' = None /\ shell' = NewShell)
              /\ handled'.some.update = None
              /\ UNCHANGED <<last_click, drag_click, partial_scroll>>]_vars

\* The window has got the focus back in the second half of the blink period
\* of a focused widget: updated_at is the instant of the event, later than
\* now, and the caret is visible again.
Wit_C25_WindowFocusedAgain ==
    /\ WindowEvent(handled, "WindowFocused")
    /\ focus # None
    /\ focus.some.is_window_focused
    /\ focus.some.updated_at = clock
    /\ focus.some.now < clock
    /\ shell.redraw
    /\ shell.layout_invalid

\* The window has lost the focus under a focused widget.
C25_WindowUnfocused ==
    /\ WindowEvent(handled, "WindowUnfocused")
    /\ focus # None
    /\ ~focus.some.is_window_focused
    /\ shell = NewShell

\* The window has got the focus over a widget without a focus record.
C25_WindowFocusedWithoutFocus ==
    /\ WindowEvent(handled, "WindowFocused")
    /\ focus = None
    /\ shell = NewShell

\* The call of update h applied a binding.
BindingUpdate(h) ==
    /\ h # Pending
    /\ ~h.some.update.none
    /\ h.some.update.some.u = "Binding"

\* C26: after a binding has been applied, whichever it is, a focus record
\* that exists has its updated_at at the instant of the call, so that the
\* caret is blink-visible if the window is focused; a binding applied
\* without a focus record, or one that removed it, leaves none.
Thm_C26_BlinkRestarts ==
    [][BindingUpdate(handled') =>
          /\ focus' # None =>
                /\ focus'.some.updated_at = clock
                /\ focus'.some.is_window_focused => is_cursor_visible(focus'.some)
          /\ focus = None => focus' = None
          /\ handled'.some.update.some.binding.b \in {"Unfocus", "Submit"} =>
                focus' = None]_vars

\* Copy has been applied to a focused widget 499 ms or more after its last
\* redraw tick: updated_at alone has changed, and the caret is visible.
Wit_C26_RestartedByCopy ==
    /\ BindingUpdate(handled)
    /\ handled.some.update.some.binding.b = "Copy"
    /\ focus # None
    /\ focus.some.updated_at = clock
    /\ focus.some.now < clock
    /\ is_cursor_visible(focus.some)

\* The same for a Custom binding and for a Sequence that keeps the focus.
C26_RestartedByCustom ==
    /\ BindingUpdate(handled)
    /\ handled.some.update.some.binding.b = "Custom"
    /\ focus # None
    /\ focus.some.updated_at = clock
    /\ focus.some.now < clock

C26_RestartedBySequence ==
    /\ BindingUpdate(handled)
    /\ handled.some.update.some.binding = Sequence(<<Copy, Custom(AppMessage)>>)
    /\ focus # None
    /\ focus.some.updated_at = clock
    /\ focus.some.now < clock

\* Copy has been applied under an unfocused window: updated_at has changed
\* and the caret stays invisible.
C26_WindowUnfocused ==
    /\ BindingUpdate(handled)
    /\ handled.some.update.some.binding.b = "Copy"
    /\ focus # None
    /\ ~focus.some.is_window_focused
    /\ focus.some.updated_at = clock
    /\ clock > 0

\* A Sequence has removed the focus.
C26_FocusRemovedBySequence ==
    /\ BindingUpdate(handled)
    /\ handled.some.update.some.binding.b = "Sequence"
    /\ focus = None
    /\ shell.messages # <<>>

\* ------------------------------------------------------------------------
\* Claims about Binding::Sequence

\* The bindings of a binding that are not sequences, from left to right
RECURSIVE Flatten(_)
RECURSIVE FlattenAll(_)
FlattenAll(bindings) ==
    IF bindings = <<>> THEN <<>>
    ELSE Flatten(Head(bindings)) \o FlattenAll(Tail(bindings))

Flatten(binding) ==
    IF binding.b = "Sequence" THEN FlattenAll(binding.bindings) ELSE <<binding>>

\* What one such binding publishes for the widget w, focused or not
PublishedBy(binding, focused, w, selection, clipboard) ==
    CASE binding.b \in ActionBindings /\ focused -> <<OnEdit(ActionOf(binding))>>
      [] binding.b = "Cut" /\ focused /\ ~selection.none ->
            <<OnEdit(ActionEdit(EditDelete))>>
      [] binding.b = "Paste" /\ focused /\ ~clipboard.none ->
            <<OnEdit(ActionEdit(EditPaste(clipboard.some)))>>
      [] binding.b = "Unfocus" /\ focused /\ w.on_blur -> <<OnBlur>>
      [] binding.b = "Submit" /\ focused /\ w.on_submit -> <<OnSubmit>>
      [] binding.b = "Custom" -> <<CustomMessage(binding.message)>>
      [] OTHER -> <<>>

\* What they publish one after the other, the widget being unfocused for
\* those that follow an Unfocus or a Submit
RECURSIVE PublishedInOrder(_, _, _, _, _)
PublishedInOrder(bindings, focused, w, selection, clipboard) ==
    IF bindings = <<>> THEN <<>>
    ELSE PublishedBy(Head(bindings), focused, w, selection, clipboard)
             \o PublishedInOrder(Tail(bindings),
                                 focused /\ Head(bindings).b \notin {"Unfocus", "Submit"},
                                 w, selection, clipboard)

\* The call of update h applied a Sequence.
SequenceUpdate(h) == BindingUpdate(h) /\ h.some.update.some.binding.b = "Sequence"

\* C27: a Sequence publishes what its sub-bindings publish from left to
\* right, those of a nested Sequence in its place, each against the state
\* the ones before have left: after an Unfocus or a Submit of a focused
\* widget the bindings that publish only if focused publish nothing, and the
\* widget ends unfocused.
Thm_C27_SequenceInOrder ==
    [][SequenceUpdate(handled') =>
          LET in == handled'.some.in
              leaves == Flatten(handled'.some.update.some.binding)
          IN  /\ shell'.messages =
                    PublishedInOrder(leaves, focus # None, in.widget,
                                     in.selection, in.clipboard)
              /\ (\E i \in 1..Len(leaves) : leaves[i].b \in {"Unfocus", "Submit"}) =>
                    focus' = None
              /\ \A i, j \in 1..Len(shell'.messages) :
                    (i < j /\ shell'.messages[i] \in {OnBlur, OnSubmit}) =>
                        shell'.messages[j].m # "on_edit"]_vars

\* Insert a, Unfocus, Insert b, Custom have been applied to a focused
\* widget: the second Insert has published nothing.
Wit_C27_UnfocusedHalfWay ==
    /\ SequenceUpdate(handled)
    /\ shell.messages = <<OnEdit(ActionEdit(EditInsert("a"))), OnBlur,
                          CustomMessage(AppMessage)>>
    /\ focus = None

\* Move and Submit in a nested Sequence, then Enter and Custom: Enter has
\* published nothing.
C27_SubmittedInNestedSequence ==
    /\ SequenceUpdate(handled)
    /\ shell.messages = <<OnEdit(ActionMove("Left")), OnSubmit, CustomMessage(AppMessage)>>
    /\ focus = None

\* Four Inserts, the two in the middle in a nested Sequence, in order.
C27_NestedInOrder ==
    /\ SequenceUpdate(handled)
    /\ shell.messages = <<OnEdit(ActionEdit(EditInsert("a"))),
                          OnEdit(ActionEdit(EditInsert("b"))),
                          OnEdit(ActionEdit(EditInsert("c"))),
                          OnEdit(ActionEdit(EditInsert("d")))>>
    /\ focus = Some(FocusNow(clock))

\* The first sequence applied to an unfocused widget: Custom alone publishes.
C27_UnfocusedFromTheStart ==
    /\ SequenceUpdate(handled)
    /\ Len(Flatten(handled.some.update.some.binding)) = 4
    /\ shell.messages = <<CustomMessage(AppMessage)>>
    /\ focus = None

\* ------------------------------------------------------------------------
\* Claims about the amount of a wheel event

\* The call of update h handled a wheel event for a widget with on_edit.
WheelEvent(h) ==
    /\ h # Pending
    /\ h.some.in.event.type = "WheelScrolled"
    /\ h.some.in.widget.on_edit

\* C28: a wheel event with the cursor over the bounds is read as a Scroll
\* whose amount, for a line delta y other than 0, has the sign opposite to y
\* and the magnitude max(4 * |y|, 1 line), is 0 for y = 0, and is -y / 4 for
\* a pixel delta; with the cursor outside the bounds it is read as no update.
Thm_C28_ScrollAmount ==
    [][WheelEvent(handled') =>
          LET in == handled'.some.in
              y == in.event.y
              amount == handled'.some.update.some.lines
          IN  IF ~is_over(in.cursor, LayoutBounds)
              THEN handled'.some.update = None /\ shell' = NewShell
              ELSE /\ ScrollUpdate(handled')
                   /\ (in.event.unit = "Lines" /\ y # 0) =>
                         /\ amount * y < 0
                         /\ Abs(amount) = Max(4 * Abs(y), OneLine)
                   /\ (in.event.unit = "Lines" /\ y = 0) => amount = 0
                   /\ in.event.unit = "Pixels" => 4 * amount = 0 - y]_vars

\* A line delta of 0.1 has been read as one line, of the opposite sign.
Wit_C28_AtLeastOneLine ==
    /\ WheelEvent(handled)
    /\ handled.some.in.event = WheelScrolled("Lines", 4)
    /\ handled.some.update = Some(UpdateScroll(0 - OneLine))

\* A line delta of -0.1, of 0.5 and of 0, and a pixel delta of 6 pixels.
C28_NegativeDelta ==
    /\ WheelEvent(handled)
    /\ handled.some.in.event = WheelScrolled("Lines", 0 - 4)
    /\ handled.some.update = Some(UpdateScroll(OneLine))

C28_Amplified ==
    /\ WheelEvent(handled)
    /\ handled.some.in.event = WheelScrolled("Lines", 20)
    /\ handled.some.update = Some(UpdateScroll(0 - 2 * OneLine))

C28_NoDelta ==
    /\ WheelEvent(handled)
    /\ handled.some.in.event = WheelScrolled("Lines", 0)
    /\ handled.some.update = Some(UpdateScroll(0))

C28_Pixels ==
    /\ WheelEvent(handled)
    /\ handled.some.in.event = WheelScrolled("Pixels", 240)
    /\ handled.some.update = Some(UpdateScroll(0 - 60))

\* A wheel event with the cursor outside the bounds.
C28_CursorOutside ==
    /\ WheelEvent(handled)
    /\ ~is_over(handled.some.in.cursor, LayoutBounds)
    /\ handled.some.update = None

\* ------------------------------------------------------------------------
\* Claims about the size of the layout and the highlighter (under
\* SpecLayout)

\* The node of the editor as C29 gives its height: the content-limit height
\* or, if larger, the editor's min_bounds height plus the vertical padding
\* of the widget
EditorNodeHeight ==
    Max(ContentLimitHeight,
        Plus(layIn.editor_min_bounds.height, vertical(layIn.widget.padding)))

\* v kept between lo and hi
Clamped(v, lo, hi) == Max(Min(v, hi), lo)

\* The size of a pass over the same widget and limits with other measures
SizeWith(focused, paragraph_height, editor_height) ==
    layout(focused, [layIn EXCEPT !.paragraph_min_bounds.height = paragraph_height,
                                  !.editor_min_bounds.height = editor_height]).size

\* C29: the size of the layout of a focused widget is the content-limit
\* width by the larger of the content-limit height and the height of the
\* editor's node, expanded by the fitted padding; that of an unfocused
\* widget is the span node's size plus the fitted padding, kept within the
\* limits. The measure of the editor does not change the unfocused size, nor
\* that of the span paragraph the focused size.
Thm_C29_FinalSize ==
    LaidOut =>
        LET node == layOut.some.node
            p == node.padding
            spans_node == node.children[1]
            editor_node == node.children[3]
        IN  /\ editor_node.height = EditorNodeHeight
            /\ focus # None =>
                  node.size = Size(Plus(node.content_limits.max.width, horizontal(p)),
                                   Plus(Max(ContentLimitHeight, EditorNodeHeight),
                                        vertical(p)))
            /\ focus = None =>
                  node.size = Size(Clamped(Plus(spans_node.width, horizontal(p)),
                                           layIn.limits.min.width, layIn.limits.max.width),
                                   Clamped(Plus(spans_node.height, vertical(p)),
                                           layIn.limits.min.height,
                                           layIn.limits.max.height))
            /\ \A paragraph_height \in {6, 16, 60}, editor_height \in {6, 50} :
                  /\ SizeWith(FALSE, layIn.paragraph_min_bounds.height, editor_height)
                        = SizeWith(FALSE, layIn.paragraph_min_bounds.height,
                                   layIn.editor_min_bounds.height)
                  /\ SizeWith(TRUE, paragraph_height, layIn.editor_min_bounds.height)
                        = SizeWith(TRUE, layIn.paragraph_min_bounds.height,
                                   layIn.editor_min_bounds.height)

\* A focused widget whose editor outgrows the content limits: its height is
\* the editor's min_bounds height plus the vertical padding, twice.
Wit_C29_FocusedEditorOutgrows ==
    /\ LaidOut
    /\ focus # None
    /\ layIn.editor_min_bounds.height > ContentLimitHeight
    /\ VerticalPadding > 0
    /\ layOut.some.node.size.height
          = layIn.editor_min_bounds.height + vertical(layIn.widget.padding)
                + VerticalPadding

\* The same with a padding that does not fit the limits: the editor's node
\* counts the padding of the widget, the expansion the fitted one.
C29_PaddingNotFitting ==
    /\ LaidOut
    /\ focus # None
    /\ VerticalPadding < vertical(layIn.widget.padding)
    /\ layOut.some.node.size.height
          = layIn.editor_min_bounds.height + vertical(layIn.widget.padding)
                + VerticalPadding

\* An unfocused widget whose editor outgrows the content limits and whose
\* spans do not: the size is that of the spans plus the padding.
C29_UnfocusedOfSpans ==
    /\ LaidOut
    /\ focus = None
    /\ layIn.editor_min_bounds.height > ContentLimitHeight
    /\ layOut.some.node.size.height = layIn.paragraph_min_bounds.height + VerticalPadding
    /\ layOut.some.node.size.height < layIn.limits.max.height

\* An unfocused widget whose size is held by the minimum of the limits (the
\* span node and the fitted padding never exceed their maximum).
C29_UnfocusedAtMinimum ==
    /\ LaidOut
    /\ focus = None
    /\ Plus(layOut.some.node.children[1].height, VerticalPadding) < layIn.limits.min.height
    /\ layOut.some.node.size.height = layIn.limits.min.height

\* C30: a layout pass leaves the stored highlighter_format_address and
\* highlighter_settings equal to those of the widget; it invalidates the
\* highlighter from line 0 exactly when the stored address differed from
\* the widget's format, and pushes the settings into the highlighter exactly
\* when the stored settings differed from the widget's; a pass that follows
\* another one of the same widget does neither.
Thm_C30_HighlighterChange ==
    [][layOut' # Pending =>
          LET w == layIn'.widget IN
          /\ highlighter_format_address' = w.highlighter_format
          /\ highlighter_settings' = w.highlighter_settings
          /\ layOut'.some.change_line <=> highlighter_format_address # w.highlighter_format
          /\ layOut'.some.update <=> highlighter_settings # w.highlighter_settings
          /\ highlighter' = IF highlighter_settings # w.highlighter_settings
                            THEN w.highlighter_settings
                            ELSE highlighter
          /\ layOut # Pending =>
                (~layOut'.some.change_line /\ ~layOut'.some.update)]_vars

\* The first pass of a widget whose format alone has changed: the
\* highlighter is invalidated and keeps its settings.
Wit_C30_FormatAloneChanged ==
    /\ LaidOut
    /\ layOut.some.change_line
    /\ ~layOut.some.update
    /\ highlighter_format_address = layIn.widget.highlighter_format
    /\ highlighter = layIn.widget.highlighter_settings

\* The first pass of a widget whose settings alone have changed.
C30_SettingsAloneChanged ==
    /\ LaidOut
    /\ ~layOut.some.change_line
    /\ layOut.some.update
    /\ highlighter_settings = layIn.widget.highlighter_settings
    /\ highlighter = layIn.widget.highlighter_settings

\* A second pass: the paragraph of the first one is kept and nothing is
\* asked of the highlighter.
C30_SecondPass ==
    /\ LaidOut
    /\ paragraph.op = "kept"
    /\ ~layOut.some.change_line
    /\ ~layOut.some.update

\* ------------------------------------------------------------------------
\* Claims about the changes of the focus inside update

\* C31: every call of update that takes the widget from unfocused to
\* focused or from focused to unfocused invalidates the layout.
Cex_C31_LayoutInvalidated ==
    [][(handled' # Pending /\ (focus = None) # (focus' = None)) =>
          shell'.layout_invalid]_vars

\* The first binding of the leaves that takes the focus is a Submit.
SubmitsFirst(leaves) ==
    \E i \in 1..Len(leaves) :
        /\ leaves[i].b = "Submit"
        /\ \A j \in 1..(i - 1) : leaves[j].b \notin {"Unfocus", "Submit"}

\* What the code does of C31: the click that focuses and the Submit binding
\* invalidate the layout; the Unfocus binding, alone or in a Sequence,
\* requests a redraw and leaves the layout valid.
C31_InvalidatedButByUnfocus ==
    [][(handled' # Pending /\ (focus = None) # (focus' = None)) =>
          IF BindingUpdate(handled')
                 /\ ~SubmitsFirst(Flatten(handled'.some.update.some.binding))
          THEN shell'.redraw /\ ~shell'.layout_invalid
          ELSE shell'.layout_invalid]_vars

\* The Unfocus binding has unfocused the widget: the layout is still valid.
C31_UnfocusedWithoutInvalidation ==
    /\ ReadAs(handled, UpdateBinding(Unfocus))
    /\ focus = None
    /\ shell.redraw
    /\ ~shell.layout_invalid

\* The widget is focused in a window that is not.
WindowLost(state_focus) == state_focus # None /\ ~state_focus.some.is_window_focused

\* The call of update h published an Action through on_edit.
PublishedAction(sh) == \E i \in 1..Len(sh.messages) : sh.messages[i].m = "on_edit"

\* C32 as stated: once is_window_focused is false, no call of update but
\* that of a window focus sets it back to true while the focus record
\* exists.
Cex_C32_StaysFalse ==
    [][(handled' # Pending /\ WindowLost(focus) /\ Blinking(focus')) =>
          WindowEvent(handled', "WindowFocused")]_vars

\* C32, amended: while a focus record exists, is_window_focused once false
\* stays false through clicks, drags, releases, scrolls, redraw ticks and
\* the bindings that publish no Action (Copy, Custom, a resolver's none); it
\* becomes true again by a window focus, by a focus operation, and by every
\* binding that publishes an Action through on_edit, which focuses the
\* widget anew.
Thm_C32_WindowFocusFlag ==
    [][/\ (handled' # Pending /\ WindowLost(focus) /\ Blinking(focus')) =>
              \/ WindowEvent(handled', "WindowFocused")
              \/ BindingUpdate(handled') /\ PublishedAction(shell')
       /\ (AppliedBinding(handled', ActionBindings) /\ WindowLost(focus)) =>
              Blinking(focus')
       /\ (handled' # Pending /\ ~BindingUpdate(handled') /\ WindowLost(focus)
              /\ ~WindowEvent(handled', "WindowFocused")) =>
              WindowLost(focus')]_vars

\* A Single click has been handled by a focused widget whose window is not
\* focused: it has published its Click and the flag is still false.
Wit_C32_ClickKeepsFlag ==
    /\ ClickOfKind(handled, {"Single"})
    /\ WindowLost(focus)
    /\ shell.messages # <<>>

\* Copy has been applied under an unfocused window: the flag is still false.
C32_CopyKeepsFlag ==
    /\ AppliedBinding(handled, {"Copy"})
    /\ WindowLost(focus)
    /\ shell.clipboard # <<>>

\* The call of update h read its event as a Double or Triple click for a
\* widget with on_edit.
FocusingClick(h) == ClickOfKind(h, {"Double", "Triple"}) /\ h.some.in.widget.on_edit

\* C33: a call of update gives an unfocused widget a focus record only when
\* it reads a left press inside the bounds as a Double or Triple click, the
\* widget having on_edit; a Single click, a drag, a release, a scroll, a
\* window event and every binding leave it without one.
Thm_C33_FocusedByClickOnly ==
    [][(handled' # Pending /\ focus = None) =>
          /\ focus' # None <=> FocusingClick(handled')
          /\ focus' # None => is_over(handled'.some.in.cursor, LayoutBounds)]_vars

\* A Custom binding and a Sequence have been applied to an unfocused widget,
\* which has published a message and is still unfocused.
Wit_C33_BindingLeavesUnfocused ==
    /\ BindingUpdate(handled)
    /\ handled.some.update.some.binding.b \in {"Custom", "Sequence"}
    /\ shell.messages # <<>>
    /\ focus = None
    /\ handled.some.in.widget.on_blur = FALSE
    /\ handled.some.in.widget.on_submit = FALSE

\* A Single click has been stored by an unfocused widget.
C33_SingleClickLeavesUnfocused ==
    /\ ClickOfKind(handled, {"Single"})
    /\ focus = None
    /\ last_click # None

\* A Double click has focused the widget.
C33_FocusedByDoubleClick ==
    /\ ClickOfKind(handled, {"Double"})
    /\ focus = Some(FocusNow(clock))
    /\ shell.layout_invalid

\* ------------------------------------------------------------------------
\* Claims about runs of clicks

\* The press of the input in is consecutive to the stored click: same
\* button, closer than 6 units, later by at most 300 ms.
ConsecutivePress(in, previous, time) ==
    /\ in.event.type = "ButtonPressed"
    /\ in.event.button = "Left"
    /\ in.widget.on_edit
    /\ is_over(in.cursor, LayoutBounds)
    /\ ~previous.none
    /\ previous.some.button = "Left"
    /\ is_consecutive(previous.some,
                      adjusted(Point(in.cursor.some.x - LayoutBounds.x,
                                     in.cursor.some.y - LayoutBounds.y),
                               in.widget.padding),
                      time)

\* C34: last_click and drag_click never hold a Triple click; a press
\* consecutive to a stored Double click is read as a Triple click, however
\* many Triple clicks came since, and publishes SelectAll if the widget is
\* focused; a Triple click leaves last_click and drag_click as they were.
Thm_C34_TripleNotStored ==
    [][/\ last_click' # None => last_click'.some.kind # "Triple"
       /\ drag_click' # Some("Triple")
       /\ ClickOfKind(handled', {"Triple"}) =>
             (last_click' = last_click /\ drag_click' = drag_click)
       /\ (/\ handled' # Pending
           /\ ConsecutivePress(handled'.some.in, last_click, clock)
           /\ last_click.some.kind = "Double") =>
             /\ ClickOfKind(handled', {"Triple"})
             /\ focus # None => shell'.messages = <<OnEdit(ActionSelectAll)>>]_vars

\* The third and the fourth press of a run have both published SelectAll,
\* the stored click being the Double click of the second press.
Wit_C34_TripleTwice ==
    /\ Len(Run) = 4
    /\ Run[3].messages = <<OnEdit(ActionSelectAll)>>
    /\ Run[4].messages = <<OnEdit(ActionSelectAll)>>
    /\ Run[4].time = Run[2].time + 2 * ClickStep
    /\ ClickOfKind(handled, {"Triple"})
    /\ last_click # None
    /\ last_click.some.kind = "Double"
    /\ last_click.some.time = Run[2].time
    /\ drag_click = None

\* A press that follows a Triple click by ClickStep, more than 300 ms after
\* the stored Double click, has been read as a Single click.
C34_SingleAfterLateTriple ==
    /\ Len(Run) = 4
    /\ Run[4].time = Run[3].time + ClickStep
    /\ Run[3].messages = <<OnEdit(ActionSelectAll)>>
    /\ Run[4].time > Run[2].time + 300
    /\ ClickOfKind(handled, {"Single"})

\* The call of update h read its event as a Click or a Drag.
ClickOrDrag(h) ==
    /\ h # Pending
    /\ ~h.some.update.none
    /\ h.some.update.some.u \in {"Click", "Drag"}

\* The position that the Click or Drag read by h carries
CarriedPosition(h) ==
    IF h.some.update.some.u = "Click" THEN h.some.update.some.click.position
    ELSE h.some.update.some.position

\* The cursor of the input of h relative to the bounds of the layout
RelativeCursor(h) ==
    Point(h.some.in.cursor.some.x - LayoutBounds.x,
          h.some.in.cursor.some.y - LayoutBounds.y)

\* C37: the position carried by a Click or a Drag is the cursor's, relative
\* to the bounds, less the left padding in x and the top padding in y,
\* whatever the padding.
Cex_C37_LeftFromXTopFromY ==
    [][ClickOrDrag(handled') =>
          CarriedPosition(handled') =
              Point(RelativeCursor(handled').x - handled'.some.in.widget.padding.left,
                    RelativeCursor(handled').y - handled'.some.in.widget.padding.top)]_vars

\* What update.rs computes: the top padding is taken from x and the left
\* padding from y, which is the position of C37 when the two are equal.
C37_TopFromXLeftFromY ==
    [][ClickOrDrag(handled') =>
          /\ CarriedPosition(handled') =
                Point(RelativeCursor(handled').x - handled'.some.in.widget.padding.top,
                      RelativeCursor(handled').y - handled'.some.in.widget.padding.left)
          /\ shell'.messages # <<>> =>
                /\ shell'.messages[1].m = "on_edit"
                /\ shell'.messages[1].action.a \in {"Click", "Drag"} =>
                      shell'.messages[1].action.position = CarriedPosition(handled')]_vars

\* Under a padding of 2 at the top and 3 on the left, a press at (20, 20)
\* from the corner of the bounds has published a Click at (18, 17), and a
\* cursor move has published a Drag.
C37_ClickUnderUnevenPadding ==
    /\ ClickOrDrag(handled)
    /\ handled.some.update.some.u = "Click"
    /\ handled.some.in.widget.padding = Padding(2, 1, 4, 3)
    /\ RelativeCursor(handled) = Point(20, 20)
    /\ shell.messages = <<OnEdit(ActionClick(Point(18, 17)))>>

C37_DragUnderUnevenPadding ==
    /\ ClickOrDrag(handled)
    /\ handled.some.update.some.u = "Drag"
    /\ handled.some.in.widget.padding = Padding(2, 1, 4, 3)
    /\ shell.messages = <<OnEdit(ActionDrag(Point(RelativeCursor(handled).x - 2,
                                                  RelativeCursor(handled).y - 3)))>>

\* ------------------------------------------------------------------------
\* Claims about the accounting of the wheel

\* C35: a Scroll handled for a bounded editor publishes the lines of the
\* amount plus partial_scroll, truncated toward zero, and leaves the rest in
\* partial_scroll, so that nothing is lost; over every sequence of such
\* updates the amounts read less the lines published are what
\* partial_scroll holds; partial_scroll is below one line in magnitude in
\* every state.
Thm_C35_ScrollConserved ==
    [][/\ observed'.unpublished = partial_scroll'
       /\ Abs(partial_scroll') < OneLine
       /\ (ScrollUpdate(handled') /\ handled'.some.in.editor_height < INFINITY) =>
             LET total == handled'.some.update.some.lines + partial_scroll
                 lines == published_lines(shell'.messages)
             IN  /\ PublishedScroll(shell')
                 /\ lines * OneLine + partial_scroll' = total
                 /\ lines * total >= 0
                 /\ Abs(lines) * OneLine <= Abs(total)]_vars

\* A wheel event of 2 pixels, half a line, has been handled while half a
\* line was left over: one line has been published and nothing is left.
Wit_C35_HalvesMakeALine ==
    /\ ScrollUpdate(handled)
    /\ handled.some.in.event = WheelScrolled("Pixels", 80)
    /\ handled.some.update.some.lines = 0 - 20
    /\ shell.messages = <<OnEdit(ActionScroll(0 - 1))>>
    /\ partial_scroll = 0
    /\ observed.unpublished = 0

\* Half a line up has cancelled the half line down that was left over: no
\* line has been published and nothing is left.
C35_Cancelled ==
    /\ ScrollUpdate(handled)
    /\ handled.some.update.some.lines = 20
    /\ shell.messages = <<OnEdit(ActionScroll(0))>>
    /\ partial_scroll = 0
    /\ observed.unpublished = 0

\* A wheel event has been dropped for an editor of unbounded height while
\* half a line was left over.
C35_DroppedNotCounted ==
    /\ ScrollUpdate(handled)
    /\ handled.some.in.editor_height >= INFINITY
    /\ shell.messages = <<>>
    /\ partial_scroll = 20
    /\ observed.unpublished = 20

\* ------------------------------------------------------------------------
\* Claims about the widget and its Content

\* C36: a call of update leaves the buffer of the Content and is_dirty as
\* they were, whatever the event; the buffer changes only in a step of
\* Content::perform, which leaves the widget's state alone, and is_dirty is
\* set after it.
Thm_C36_UpdateKeepsContent ==
    [][/\ (handled = Pending /\ handled' # Pending) =>
              (editor' = editor /\ is_dirty' = is_dirty)
       /\ editor' # editor =>
              /\ is_dirty'
              /\ handled' = handled
              /\ UNCHANGED <<focus, last_click, drag_click, partial_scroll, shell>>]_vars

\* update has published the insertion of a character, and the buffer is
\* still the one the application had made by Content::perform.
Wit_C36_InsertPublishedOnly ==
    /\ handled # Pending
    /\ shell.messages = <<OnEdit(ActionEdit(EditInsert("z")))>>
    /\ textIn = None
    /\ editor # with_text(<<>>)
    /\ is_dirty

\* update has published a cut: the selection went to the clipboard and the
\* buffer is as Content::new made it.
C36_CutPublishedOnly ==
    /\ handled # Pending
    /\ shell.clipboard # <<>>
    /\ shell.messages # <<>>
    /\ textIn = Some(<<>>)
    /\ editor = with_text(<<>>)

\* ------------------------------------------------------------------------
\* Claims about what is published to whom

\* The bindings the default resolver never answers
NeverResolved == {"Submit", "SelectWord", "SelectLine", "Sequence", "Custom"}

\* on_submit is among the messages
SubmitPublished(messages) == \E i \in 1..Len(messages) : messages[i] = OnSubmit

\* C38: a key press read by the default resolver is never read as Submit,
\* SelectWord, SelectLine, a Sequence or a Custom binding, and Enter on a
\* focused widget is read as the Enter binding; on_submit is published only
\* by a call of update whose custom resolver answered Submit, alone or in a
\* Sequence, for a widget with on_submit.
Thm_C38_SubmitOnlyByCustom ==
    [][handled' # Pending =>
          /\ (DefaultKeyPress(handled') /\ BindingUpdate(handled')) =>
                handled'.some.update.some.binding.b \notin NeverResolved
          /\ (/\ DefaultKeyPress(handled')
              /\ handled'.some.in.widget.on_edit
              /\ handled'.some.in.event.key = Named("Enter")
              /\ focus # None) =>
                /\ handled'.some.update = Some(UpdateBinding(Enter))
                /\ shell'.messages = <<OnEdit(ActionEdit(EditEnter))>>
          /\ SubmitPublished(shell'.messages) =>
                /\ CustomKeyPress(handled')
                /\ handled'.some.in.widget.on_submit
                /\ BindingUpdate(handled')
                /\ \E i \in 1..Len(Flatten(handled'.some.update.some.binding)) :
                      Flatten(handled'.some.update.some.binding)[i] = Submit]_vars

\* Enter has been pressed on a focused widget with on_submit and the
\* default resolver: the Enter edit has been published, on_submit has not.
Wit_C38_EnterWithOnSubmit ==
    /\ DefaultKeyPress(handled)
    /\ handled.some.in.widget.on_submit
    /\ handled.some.in.event.key = Named("Enter")
    /\ handled.some.update = Some(UpdateBinding(Enter))
    /\ shell.messages = <<OnEdit(ActionEdit(EditEnter))>>
    /\ focus # None

\* A custom resolver has answered Submit inside a Sequence and on_submit
\* has been published.
C38_SubmittedBySequence ==
    /\ CustomKeyPress(handled)
    /\ BindingUpdate(handled)
    /\ handled.some.update.some.binding.b = "Sequence"
    /\ SubmitPublished(shell.messages)

\* C38 for the resolver alone: whatever the key press and the build, the
\* default resolver answers none of Submit, SelectWord, SelectLine, Sequence
\* and Custom, and answers Enter to the Enter key of a focused widget.
C38_DefaultResolverBindings ==
    keyOut # Pending =>
        /\ ~keyOut.none => keyOut.some.b \notin NeverResolved
        /\ (keyIn.key = Named("Enter") /\ keyIn.status = "Focused") => keyOut = Some(Enter)

\* The resolver has answered Enter to the Enter key held with every
\* modifier.
C38_EnterWithModifiers ==
    /\ keyOut = Some(Enter)
    /\ keyIn.modifiers = [shift |-> TRUE, control |-> TRUE, alt |-> TRUE, logo |-> TRUE]

\* The Actions published through on_edit among the messages
Actions(messages) ==
    {messages[i].action : i \in {j \in 1..Len(messages) : messages[j].m = "on_edit"}}

\* C39 as stated: a call of update that finds the widget unfocused publishes
\* no Action, but the Click of the Double or Triple click that focuses it.
Cex_C39_NothingWhileUnfocused ==
    [][(handled' # Pending /\ focus = None) =>
          \A action \in Actions(shell'.messages) :
              FocusingClick(handled') /\ action.a = "Click"]_vars

\* C39: a call of update that finds the widget unfocused publishes no Action
\* but the Click of the Double or Triple click that focuses it, the Drag of
\* a cursor move inside the bounds that follows a Single click, and the
\* Scroll of a wheel event over the bounds with a bounded editor; a Single
\* click, a binding and a window event publish none.
Thm_C39_DragAndScrollUnfocused ==
    [][(handled' # Pending /\ focus = None) =>
          /\ Len(shell'.messages) <= 1 \/ BindingUpdate(handled')
          /\ \A action \in Actions(shell'.messages) :
                \/ FocusingClick(handled') /\ action.a = "Click" /\ focus' # None
                \/ /\ action.a = "Drag"
                   /\ ReadAs(handled', UpdateDrag(action.position))
                   /\ drag_click = Some("Single")
                   /\ is_over(handled'.some.in.cursor, LayoutBounds)
                   /\ focus' = None
                \/ /\ ScrollUpdate(handled')
                   /\ action.a = "Scroll"
                   /\ handled'.some.in.editor_height < INFINITY
                   /\ focus' = None
          /\ (ClickOrDrag(handled') /\ handled'.some.update.some.u = "Drag") =>
                Actions(shell'.messages) = {ActionDrag(handled'.some.update.some.position)}
          /\ (ScrollUpdate(handled') /\ handled'.some.in.editor_height < INFINITY) =>
                \E action \in Actions(shell'.messages) : action.a = "Scroll"]_vars

\* A Drag has been published for a widget that is not focused: the cursor
\* moved inside the bounds after a Single click had left it unfocused.
Wit_C39_DragWhileUnfocused ==
    /\ ClickOrDrag(handled)
    /\ handled.some.update.some.u = "Drag"
    /\ focus = None
    /\ drag_click = Some("Single")
    /\ shell.messages = <<OnEdit(ActionDrag(handled.some.update.some.position))>>
    /\ shell.event_captured

\* A Scroll has been published for a widget that is not focused.
C39_ScrollWhileUnfocused ==
    /\ ScrollUpdate(handled)
    /\ focus = None
    /\ shell.messages = <<OnEdit(ActionScroll(0 - 1))>>
====
